---- MODULE Spec2Model ----
(***************************************************************************)
(* TaskDAG canvas module: the task tree, the per-task state side map, the  *)
(* hitbox list rebuilt by every render, the hover cursor, the label edit   *)
(* session and the action dispatcher (pointer and keyboard).               *)
(*                                                                         *)
(* Tasks are object identities: a task is a natural number, the root task  *)
(* is 0, and a task created by `add` gets the next unused number.  A task  *)
(* removed from the tree keeps its fields, exactly as the JavaScript       *)
(* object does while something still refers to it.                         *)
(*                                                                         *)
(* Every handler is one action.  The operators below are the functions of  *)
(* the source written as functions from a state record to a state record,  *)
(* so that a handler which calls several of them (pointerdown: blur,       *)
(* updateHoverState, handleAction, render) is their composition.           *)
(*                                                                         *)
(* A pointer position is given by what the hit tests return for it (no     *)
(* node, the i-th hitbox at a relative x, or the floating add button of    *)
(* the i-th hitbox); pointerAt finds that for a position of the window by  *)
(* the geometry of the hitboxes.  A directional key is given by the hitbox *)
(* the neighbour search returns; neighborIndex finds that hitbox by the    *)
(* geometry.  The viewport (pan, zoom and their                            *)
(* targets) and the layout and display positions are numbers: lengths and  *)
(* factors in hundredths, layout ranges in 1e-4, times in milliseconds.    *)
(*                                                                         *)
(* The presign handler of infrastructure/lambda/index.js is a function of  *)
(* its event; lambdaEvent and lambdaResult hold one invocation of it.      *)
(***************************************************************************)
EXTENDS Integers, Sequences, FiniteSets, TLC

VARIABLES
  subtasks,                \* Task.subtasks of every task object
  label,                   \* Task.label of every task object
  taskStates,              \* the taskStates side map ("default" = no entry)
  nextId,                  \* number of task objects created so far
  hoveredNode,             \* the hovered hitbox object, or NoNode
  hoveredAction,           \* the highlighted action, or "null"
  hoveredOrigin,           \* x and y of the hovered hitbox object, or <<>>
  nodeHitboxes,            \* the hitbox list built by the last render
  displayPositions,        \* the display position of every task drawn by the last render
  editingTask,             \* the task in edit mode, or NoTask
  editingParentForRemoval, \* the parent recorded for that task, or NoTask
  editingInitialLabel,     \* the label captured when the session started
  inputValue,              \* editingInput.value
  inputDisplay,            \* editingInput.style.display = "block"
  inputFocused,            \* the input element has the keyboard focus
  focusPending,            \* startEditingTask's focus callback is scheduled
  pendingEditTask,
  pendingEditParent,
  pendingHoverTask,
  isDragging,              \* setupPanHandlers' isDragging
  dragStartX, dragStartY,  \* setupPanHandlers' dragStartX, dragStartY
  panX, panY, zoom,        \* the viewport, in hundredths
  panTargetX, panTargetY, zoomTarget,
  viewportAnimationHandle, \* TRUE when viewportAnimationHandle is not null
  viewportFrames,          \* pending frame callbacks of stepViewportAnimation
  pressedKeys,             \* the movement keys the program takes to be down
  keyboardAnimationHandle, \* TRUE when keyboardAnimationHandle is not null
  keyboardFrames,          \* pending frame callbacks of stepKeyboardAnimation
  layoutAnimationStartPositions, \* <<>> for null, <<map>> for a Map
  layoutElapsed,           \* the clock minus layoutAnimationStartTime, in ms, up to the duration
  layoutAnimationProgress, \* in hundredths
  animationFrameHandle,    \* TRUE when animationFrameHandle is not null
  layoutFrames,            \* pending frame callbacks of scheduleAnimationFrame
  leafCounts,              \* the leafCounts WeakMap: the cached count of a task
  nodeProgress,            \* the progress of the pending nodes of the last render
  laidOutSubtasks,         \* memo: the subtasks the last render laid out
  layoutMemo,              \* memo: the layout positions it computed for them
  lambdaEvent,             \* the event of the last invocation of the presign handler
  lambdaResult,            \* what that invocation returned or threw
  heldKeys,                \* environment: the movement keys physically held
  inputs,                  \* history: wheel, movement-key and drag events so far
  last                     \* history: the action dispatched by the last handler

vars == <<subtasks, label, taskStates, nextId, hoveredNode, hoveredAction, hoveredOrigin,
          nodeHitboxes, displayPositions, editingTask, editingParentForRemoval,
          editingInitialLabel, inputValue, inputDisplay, inputFocused,
          focusPending, pendingEditTask, pendingEditParent, pendingHoverTask,
          isDragging, dragStartX, dragStartY, panX, panY, zoom,
          panTargetX, panTargetY, zoomTarget, viewportAnimationHandle,
          viewportFrames, pressedKeys, keyboardAnimationHandle,
          keyboardFrames, layoutAnimationStartPositions, layoutElapsed,
          layoutAnimationProgress, animationFrameHandle, layoutFrames,
          leafCounts, nodeProgress, laidOutSubtasks, layoutMemo, lambdaEvent,
          lambdaResult, heldKeys, inputs, last>>

----------------------------------------------------------------------------
(* Bounds and constants *)

\* Labels are sequences of characters; SP is the blank.
SP == " "

\* The rootTask literal: task t has label SourceLabels[t + 1] and subtasks
\* SourceSubtasks[t + 1]; tasks are numbered in the order the literal lists
\* them (0 "Base", 1 "EECS MEng", 2 "NORAM scholarship", 3 "Recommendation
\* letters", 4 .. 6 "Rec letter 1" .. "Rec letter 3", 7 "Application letter").
SourceLabels ==
  << <<"B","a","s","e">>,
     <<"E","E","C","S",SP,"M","E","n","g">>,
     <<"N","O","R","A","M",SP,"s","c","h","o","l","a","r","s","h","i","p">>,
     <<"R","e","c","o","m","m","e","n","d","a","t","i","o","n",SP,"l","e","t","t","e","r","s">>,
     <<"R","e","c",SP,"l","e","t","t","e","r",SP,"1">>,
     <<"R","e","c",SP,"l","e","t","t","e","r",SP,"2">>,
     <<"R","e","c",SP,"l","e","t","t","e","r",SP,"3">>,
     <<"A","p","p","l","i","c","a","t","i","o","n",SP,"l","e","t","t","e","r">> >>

SourceSubtasks ==
  << <<1>>, <<2>>, <<3, 7>>, <<4, 5, 6>>, <<>>, <<>>, <<>>, <<>> >>

\* Number of task objects the literal creates (root included).
SourceTasks == Len(SourceLabels)

\* Number of task objects the user may create in one behaviour.
MaxNew == 1

MaxTasks == SourceTasks + MaxNew

TaskIds == 0 .. (MaxTasks - 1)

rootTask == 0

NoTask == -1

NODE_WIDTH == 220

\* Lengths, zoom factors and fractions are fixed-point numbers: integers that
\* count hundredths (a pixel is 100, zoom 1 is 100, 0.15 is 15).  Px(n) is the
\* whole number n as such a number.
Px(n) == n * 100

NODE_HEIGHT == 48

FLOATING_ADD_RADIUS == 18

FLOATING_ADD_GAP == 12

LEVEL_GAP_MIN == 280

LEVEL_GAP_MAX == 360

\* LEVEL_GAP_VIEW_RATIO = 0.9
LEVEL_GAP_VIEW_RATIO == 90

\* ZOOM_MIN = 0.4
ZOOM_MIN == 40

\* ZOOM_MAX = 2.5
ZOOM_MAX == 250

NODE_VERTICAL_MARGIN == 24

NODE_VERTICAL_SPACING == 60

\* milliseconds
LAYOUT_ANIMATION_DURATION == 350

\* KEYBOARD_PAN_SPEED = 800 pixels per second
KEYBOARD_PAN_SPEED == 800

\* VIEWPORT_ANIMATION_EPS = 0.1
VIEWPORT_ANIMATION_EPS == 10

\* PAN_ANIMATION_FACTOR = 0.15
PAN_ANIMATION_FACTOR == 15

\* ZOOM_ANIMATION_FACTOR = 0.15
ZOOM_ANIMATION_FACTOR == 15

\* window.innerWidth and window.innerHeight, in pixels.
ViewportWidth == 1280

ViewportHeight == 720

MovementKeys == {"w", "a", "s", "d"}

\* The user's inputs to the viewport in one behaviour.
MaxInputs == 2

\* Number of tasks (root included) of the trees SpecShapes starts from.
ShapeTasks == 5

NoNode == [task |-> NoTask, parent |-> NoTask, addButton |-> FALSE]

\* last: which action the handler dispatched (handleAction's action, or
\* "addRootChild"), how it was triggered, on which hitbox (task, parent), the
\* state the task had when it was dispatched, and whether the handler before
\* it had dispatched cancel on the same task.
NoAction == [action |-> "none", via |-> "none", task |-> NoTask,
             parent |-> NoTask, pre |-> "default", afterCancel |-> FALSE, at |-> <<>>,
             nav |-> <<>>]

\* The texts the user types into the input (input.value after an input event):
\* blank only, and a text with a blank to trim.
Texts == { <<SP>>, <<"a", SP>> }

\* Relative x offsets of a pointer press inside a node: the left edge, the
\* middle and the right edge, which reach every segment of a two-action and of
\* a three-action row.
RelXs == {0, 110, 220}

\* Relative x offset of a pointer that only moves over a node.
HoverRelXs == {110}

----------------------------------------------------------------------------
(* The program state as one record *)

S == [subtasks |-> subtasks, label |-> label, taskStates |-> taskStates,
      nextId |-> nextId, hoveredNode |-> hoveredNode,
      hoveredAction |-> hoveredAction, hoveredOrigin |-> hoveredOrigin,
      nodeHitboxes |-> nodeHitboxes,
      displayPositions |-> displayPositions, editingTask |-> editingTask,
      editingParentForRemoval |-> editingParentForRemoval,
      editingInitialLabel |-> editingInitialLabel, inputValue |-> inputValue,
      inputDisplay |-> inputDisplay, inputFocused |-> inputFocused,
      focusPending |-> focusPending, pendingEditTask |-> pendingEditTask,
      pendingEditParent |-> pendingEditParent,
      pendingHoverTask |-> pendingHoverTask, isDragging |-> isDragging,
      dragStartX |-> dragStartX, dragStartY |-> dragStartY,
      panX |-> panX, panY |-> panY, zoom |-> zoom,
      panTargetX |-> panTargetX, panTargetY |-> panTargetY,
      zoomTarget |-> zoomTarget,
      viewportAnimationHandle |-> viewportAnimationHandle,
      viewportFrames |-> viewportFrames, pressedKeys |-> pressedKeys,
      keyboardAnimationHandle |-> keyboardAnimationHandle,
      keyboardFrames |-> keyboardFrames,
      layoutAnimationStartPositions |-> layoutAnimationStartPositions,
      layoutElapsed |-> layoutElapsed,
      layoutAnimationProgress |-> layoutAnimationProgress,
      animationFrameHandle |-> animationFrameHandle,
      layoutFrames |-> layoutFrames,
      leafCounts |-> leafCounts,
      nodeProgress |-> nodeProgress,
      laidOutSubtasks |-> laidOutSubtasks,
      layoutMemo |-> layoutMemo,
      lambdaEvent |-> lambdaEvent, lambdaResult |-> lambdaResult,
      heldKeys |-> heldKeys,
      inputs |-> inputs, last |-> last]

\* The handler's result r, evaluated once, is the next state.
Set(r) ==
  \E v \in {r} :
    /\ subtasks' = v.subtasks
    /\ label' = v.label
    /\ taskStates' = v.taskStates
    /\ nextId' = v.nextId
    /\ hoveredNode' = v.hoveredNode
    /\ hoveredAction' = v.hoveredAction
    /\ hoveredOrigin' = v.hoveredOrigin
    /\ nodeHitboxes' = v.nodeHitboxes
    /\ displayPositions' = v.displayPositions
    /\ editingTask' = v.editingTask
    /\ editingParentForRemoval' = v.editingParentForRemoval
    /\ editingInitialLabel' = v.editingInitialLabel
    /\ inputValue' = v.inputValue
    /\ inputDisplay' = v.inputDisplay
    /\ inputFocused' = v.inputFocused
    /\ focusPending' = v.focusPending
    /\ pendingEditTask' = v.pendingEditTask
    /\ pendingEditParent' = v.pendingEditParent
    /\ pendingHoverTask' = v.pendingHoverTask
    /\ isDragging' = v.isDragging
    /\ dragStartX' = v.dragStartX
    /\ dragStartY' = v.dragStartY
    /\ panX' = v.panX
    /\ panY' = v.panY
    /\ zoom' = v.zoom
    /\ panTargetX' = v.panTargetX
    /\ panTargetY' = v.panTargetY
    /\ zoomTarget' = v.zoomTarget
    /\ viewportAnimationHandle' = v.viewportAnimationHandle
    /\ viewportFrames' = v.viewportFrames
    /\ pressedKeys' = v.pressedKeys
    /\ keyboardAnimationHandle' = v.keyboardAnimationHandle
    /\ keyboardFrames' = v.keyboardFrames
    /\ layoutAnimationStartPositions' = v.layoutAnimationStartPositions
    /\ layoutElapsed' = v.layoutElapsed
    /\ layoutAnimationProgress' = v.layoutAnimationProgress
    /\ animationFrameHandle' = v.animationFrameHandle
    /\ layoutFrames' = v.layoutFrames
    /\ leafCounts' = v.leafCounts
    /\ nodeProgress' = v.nodeProgress
    /\ laidOutSubtasks' = v.laidOutSubtasks
    /\ layoutMemo' = v.layoutMemo
    /\ lambdaEvent' = v.lambdaEvent
    /\ lambdaResult' = v.lambdaResult
    /\ heldKeys' = v.heldKeys
    /\ inputs' = v.inputs
    /\ last' = v.last

----------------------------------------------------------------------------
(* Pure helpers *)

\* n / d rounded to the nearest integer (d > 0), the rounding of a product or
\* quotient to the precision of the fixed-point numbers.
RoundDiv(n, d) == (2 * n + d) \div (2 * d)

\* a * b and a / b on fixed-point numbers.
fmul(a, b) == RoundDiv(a * b, Px(1))

fdiv(a, b) == RoundDiv(Px(a), b)

Abs(n) == IF n < 0 THEN -n ELSE n

\* The value as it is, whatever the limits.
unclamped(value, min, max) == value

clamp(value, min, max) ==
  LET lower == IF value > min THEN value ELSE min
  IN IF lower < max THEN lower ELSE max

RECURSIVE maxDepth(_, _, _)
maxDepth(st, task, level) ==
  LET RECURSIVE deepest(_, _)
      deepest(acc, i) ==
        IF i > Len(st[task]) THEN acc
        ELSE LET d == maxDepth(st, st[task][i], level + 1)
             IN deepest(IF d > acc THEN d ELSE acc, i + 1)
  IN deepest(level, 1)

\* computeLevelGap, in hundredths of a pixel.
computeLevelGap(depth, viewportWidth) ==
  IF depth <= 0 THEN Px(LEVEL_GAP_MAX)
  ELSE LET wide == viewportWidth * LEVEL_GAP_VIEW_RATIO - Px(NODE_WIDTH)
           usableWidth == IF wide > Px(LEVEL_GAP_MIN) THEN wide
                          ELSE Px(LEVEL_GAP_MIN)
           gap == RoundDiv(usableWidth, depth)
       IN clamp(gap, Px(LEVEL_GAP_MIN), Px(LEVEL_GAP_MAX))

\* The value getLeafCount returns when the WeakMap is cache: the cached count
\* if the task has one, else the sum over its children, or 1 for a task
\* without children.  (The count it stores for a task that had none is this
\* value: see cachedLeafCounts.)
RECURSIVE getLeafCount(_, _, _)
getLeafCount(cache, st, task) ==
  LET RECURSIVE sum(_)
      sum(i) == IF i > Len(st[task]) THEN 0
                ELSE getLeafCount(cache, st, st[task][i]) + sum(i + 1)
  IN IF task \in DOMAIN cache THEN cache[task]
     ELSE IF Len(st[task]) > 0 THEN sum(1) ELSE 1

\* computeLayoutHeight, in pixels.
computeLayoutHeight(cache, st, task) ==
  LET leaves == getLeafCount(cache, st, task)
  IN (IF leaves > 1 THEN leaves ELSE 1) * (NODE_HEIGHT + NODE_VERTICAL_SPACING)

\* An interpolation that runs from the end to the start.
lerpFromEnd(start, end, t) == end + fmul(start - end, t)

lerp(start, end, t) == start + fmul(end - start, t)

\* t and the result in hundredths.
easeInOutCubic(t) ==
  IF t < 50 THEN RoundDiv(4 * t * t * t, 10000)
  ELSE Px(1) - RoundDiv((200 - 2 * t) * (200 - 2 * t) * (200 - 2 * t), 20000)

\* A layout range runs from 0 to 1; its bounds are counted in units of 1e-4,
\* the amount drawTask keeps a child's range open by.
Range(n) == n * 10000

\* drawTask's totalLeaves of a task with children.
totalLeaves(cache, st, task) ==
  LET children == st[task]
      RECURSIVE leaves(_)
      leaves(i) == IF i > Len(children) THEN 0
                   ELSE getLeafCount(cache, st, children[i]) + leaves(i + 1)
  IN leaves(1)

\* A slice in which every child has the same share of the span.
equalChildSpan(cache, st, task, child, span) == RoundDiv(span, Len(st[task]))

\* drawTask's childSpan = span * weight: the child's share of the span, in
\* proportion to its leaves, rounded to the precision of the ranges.
childSpanOf(cache, st, task, child, span) ==
  RoundDiv(span * getLeafCount(cache, st, child), totalLeaves(cache, st, task))

\* A padding of the whole margin, however short the child's span.
marginPadding(childSpan, layoutHeightValue) ==
  RoundDiv(Range(NODE_VERTICAL_MARGIN), layoutHeightValue)

\* drawTask's padding of a child's range: the margin, but less than half the
\* child's span by 1e-4.
paddingOf(childSpan, layoutHeightValue) ==
  LET desiredPaddingInRange == RoundDiv(Range(NODE_VERTICAL_MARGIN), layoutHeightValue)
      half == childSpan \div 2 - 1
  IN IF half < desiredPaddingInRange THEN half ELSE desiredPaddingInRange

\* An x that grows with the distance from the root.
layoutXByLevel(taskDepth, level, levelGap) == level * levelGap

\* drawTask: x = (taskDepth - level) * levelGap
layoutX(taskDepth, level, levelGap) == (taskDepth - level) * levelGap

\* drawTask for the task and every task below it: for each, its range
\* [start, end], its level, the slice [childStart, childEnd] its parent cut
\* for it (the range itself for the root), and its layout position x, y in
\* hundredths of a pixel.
RECURSIVE layoutRanges(_, _, _, _, _, _, _, _, _)
layoutRanges(cache, st, task, range, slice, level, layoutHeightValue, levelGap, taskDepth) ==
  LET start == range[1]
      end == range[2]
      y == RoundDiv(layoutHeightValue * (start + end), 200)
      x == layoutX(taskDepth, level, levelGap)
      children == st[task]
      span == end - start
      RECURSIVE forEach(_, _)
      forEach(i, offset) ==
        IF i > Len(children) THEN <<>>
        ELSE LET childSpan == childSpanOf(cache, st, task, children[i], span)
                 childStart == offset
                 childEnd == childStart + childSpan
                 padding == paddingOf(childSpan, layoutHeightValue)
                 childDepth == maxDepth(st, children[i], level + 1)
             IN layoutRanges(cache, st, children[i],
                             <<childStart + padding, childEnd - padding>>,
                             <<childStart, childEnd>>, level + 1,
                             layoutHeightValue, levelGap, childDepth)
                  @@ forEach(i + 1, offset + childSpan)
  IN (task :> [x |-> x, y |-> y, start |-> start, end |-> end, level |-> level,
               childStart |-> slice[1], childEnd |-> slice[2]])
       @@ forEach(1, start)

\* drawTree: drawTask(task, [0, 1], 0, layoutHeightValue, maxDepth(task)).
treeRanges(cache, st, layoutHeightValue, levelGap) ==
  layoutRanges(cache, st, rootTask, <<Range(0), Range(1)>>, <<Range(0), Range(1)>>,
               0, layoutHeightValue, levelGap, maxDepth(st, rootTask, 0))

\* The layout position x, y of every task drawTree visits.
layoutPositions(cache, st, layoutHeightValue, levelGap) ==
  LET ranges == treeRanges(cache, st, layoutHeightValue, levelGap)
  IN [task \in DOMAIN ranges |-> [x |-> ranges[task].x, y |-> ranges[task].y]]

\* The layout position of every task of the tree, as a render computes it
\* when getLeafCount reads the WeakMap cache.
layoutWith(cache, st) ==
  layoutPositions(cache, st, computeLayoutHeight(cache, st, rootTask),
                  computeLevelGap(maxDepth(st, rootTask, 0), ViewportWidth))

\* The WeakMap a render starts its layout with.
NewWeakMap == <<>>

\* The layout positions of a render, whose WeakMap is new.
treeLayout(st) == layoutWith(NewWeakMap, st)

\* String.prototype.trim, on sequences of characters.
RECURSIVE trimStart(_)
trimStart(s) == IF s # <<>> /\ Head(s) = SP THEN trimStart(Tail(s)) ELSE s

RECURSIVE trimEnd(_)
trimEnd(s) ==
  IF s # <<>> /\ s[Len(s)] = SP THEN trimEnd(SubSeq(s, 1, Len(s) - 1)) ELSE s

trim(s) == trimEnd(trimStart(s))

\* Seeded fault: the filter with the comparison inverted, which keeps only the
\* task to remove.
keepOnly(seq, task) == SelectSeq(seq, LAMBDA child : child = task)

\* Array.prototype.filter((child) => child !== task)
RECURSIVE filterOut(_, _)
filterOut(seq, task) ==
  IF seq = <<>> THEN <<>>
  ELSE IF Head(seq) = task THEN filterOut(Tail(seq), task)
       ELSE <<Head(seq)>> \o filterOut(Tail(seq), task)

\* The tasks of the subtree rooted at task, following the subtasks arrays st.
RECURSIVE Subtree(_, _)
Subtree(st, task) ==
  {task} \cup UNION { Subtree(st, st[task][i]) : i \in 1 .. Len(st[task]) }

\* The tasks currently in the tree rooted at rootTask.
InTree(st) == Subtree(st, rootTask)

\* The WeakMap after a render of the tree: a count for every task of the
\* tree (computeLayoutHeight asks for the root's, drawTask for the count of
\* every child), next to the counts it had.
cachedLeafCounts(cache, st) ==
  [task \in DOMAIN cache \cup InTree(st) |-> getLeafCount(cache, st, task)]

----------------------------------------------------------------------------
(* Task state cascade *)

\* Seeded fault: the state is set on the task alone, without the recursion.
setTaskStateShallow(ts, st, task, state) == [ts EXCEPT ![task] = state]

RECURSIVE setTaskStateRecursive(_, _, _, _)
setTaskStateRecursive(ts, st, task, state) ==
  LET RECURSIVE forEach(_, _)
      forEach(acc, i) ==
        IF i > Len(st[task]) THEN acc
        ELSE forEach(setTaskStateRecursive(acc, st, st[task][i], state), i + 1)
  IN forEach([ts EXCEPT ![task] = state], 1)

\* Seeded fault: the entry of the task alone is deleted, without the recursion.
clearTaskStateShallow(ts, st, task) == [ts EXCEPT ![task] = "default"]

RECURSIVE clearTaskStateRecursive(_, _, _)
clearTaskStateRecursive(ts, st, task) ==
  LET RECURSIVE forEach(_, _)
      forEach(acc, i) ==
        IF i > Len(st[task]) THEN acc
        ELSE forEach(clearTaskStateRecursive(acc, st, st[task][i]), i + 1)
  IN forEach([ts EXCEPT ![task] = "default"], 1)

----------------------------------------------------------------------------
(* Allowed actions and hit testing *)

getActionsForTask(s, task) ==
  IF task = rootTask THEN <<>>
  ELSE IF s.taskStates[task] = "cancelled" \/ s.taskStates[task] = "completed"
       THEN <<"delete", "restore">>
       ELSE <<"cancel", "rename", "complete">>

\* index = min(n - 1, floor(relativeX / (NODE_WIDTH / n))); relX is
\* worldX - node.x in hundredths of a pixel; actions[index] ?? null.
getActionFromPosition(s, node, relX) ==
  LET actions == getActionsForTask(s, node.task)
      n == Len(actions)
  IN IF n = 0 THEN "null"
     ELSE IF relX < 0 \/ relX > Px(NODE_WIDTH) THEN "null"
     ELSE LET q == (relX * n) \div Px(NODE_WIDTH)
              index == IF q < n - 1 THEN q ELSE n - 1
          IN actions[index + 1]

\* Seeded fault: a floating add button for a task in any state.
floatingAddButtonAlways(s, task) == TRUE

\* A floating add button exists only for a task in state default.
getFloatingAddButtonPlacement(s, task) == s.taskStates[task] = "default"

\* A pointer position, by what the hit tests find under it.
\* kind, index and relX say what the hit tests find under the position;
\* clientX and clientY are event.clientX and event.clientY, which only the pan
\* of a drag reads.
NoPointerTarget ==
  [kind |-> "none", index |-> 0, relX |-> 0, clientX |-> 0, clientY |-> 0]

PointerTargets(s, relXs) ==
  {NoPointerTarget}
  \cup {[kind |-> "node", index |-> i, relX |-> Px(x), clientX |-> 0, clientY |-> 0] :
          i \in 1 .. Len(s.nodeHitboxes), x \in relXs}
  \cup {[kind |-> "add", index |-> i, relX |-> 0, clientX |-> 0, clientY |-> 0] :
          i \in {j \in 1 .. Len(s.nodeHitboxes) : s.nodeHitboxes[j].addButton}}

hitTestNode(s, ptr) ==
  IF ptr.kind = "node" THEN s.nodeHitboxes[ptr.index] ELSE NoNode

hitTestFloatingAddButton(s, ptr) ==
  IF ptr.kind = "add" /\ s.nodeHitboxes[ptr.index].addButton
  THEN s.nodeHitboxes[ptr.index] ELSE NoNode

\* The geometry of the hit tests, in hundredths of a pixel.  drawPendingNodes
\* pushes, for the pending node of a task drawn at (x, y), the rectangle
\* {x, y: y - NODE_HEIGHT / 2, width: NODE_WIDTH, height: NODE_HEIGHT}; (x, y)
\* is the display position of the task.
hitboxRect(s, i) ==
  LET at == s.displayPositions[s.nodeHitboxes[i].task]
  IN [x |-> at.x, y |-> at.y - Px(NODE_HEIGHT) \div 2,
      width |-> Px(NODE_WIDTH), height |-> Px(NODE_HEIGHT)]

\* {cx: nodeX - FLOATING_ADD_GAP - FLOATING_ADD_RADIUS, cy: centerY,
\*  radius: FLOATING_ADD_RADIUS * 1.6}
addButtonCircle(s, i) ==
  LET at == s.displayPositions[s.nodeHitboxes[i].task]
  IN [cx |-> at.x - Px(FLOATING_ADD_GAP) - Px(FLOATING_ADD_RADIUS),
      cy |-> at.y,
      radius |-> (Px(FLOATING_ADD_RADIUS) * 16) \div 10]

\* worldX >= node.x && worldX <= node.x + node.width &&
\* worldY >= node.y && worldY <= node.y + node.height
insideRect(node, worldX, worldY) ==
  /\ worldX >= node.x
  /\ worldX <= node.x + node.width
  /\ worldY >= node.y
  /\ worldY <= node.y + node.height

\* dx * dx + dy * dy <= radius * radius; a point further than the radius
\* along one axis is outside, and its squares are not computed.
insideCircle(addButton, worldX, worldY) ==
  LET dx == worldX - addButton.cx
      dy == worldY - addButton.cy
      near(d) == d <= addButton.radius /\ -d <= addButton.radius
  IN /\ near(dx)
     /\ near(dy)
     /\ dx * dx + dy * dy <= addButton.radius * addButton.radius

\* Seeded fault: the hit test walks the hitboxes from the first one on.
RECURSIVE hitTestNodeFromFirst(_, _, _, _)
hitTestNodeFromFirst(s, i, worldX, worldY) ==
  LET j == Len(s.nodeHitboxes) + 1 - i
  IN IF i = 0 THEN 0
     ELSE IF insideRect(hitboxRect(s, j), worldX, worldY) THEN j
     ELSE hitTestNodeFromFirst(s, i - 1, worldX, worldY)

\* The loop of hitTestNode from index i - 1 of the source's list down: the
\* index of the hitbox it returns, 0 for null.
RECURSIVE hitTestNodeFrom(_, _, _, _)
hitTestNodeFrom(s, i, worldX, worldY) ==
  IF i = 0 THEN 0
  ELSE IF insideRect(hitboxRect(s, i), worldX, worldY) THEN i
  ELSE hitTestNodeFrom(s, i - 1, worldX, worldY)

\* The loop of hitTestFloatingAddButton; a hitbox without add button is
\* skipped.
RECURSIVE hitTestFloatingAddButtonFrom(_, _, _, _)
hitTestFloatingAddButtonFrom(s, i, worldX, worldY) ==
  IF i = 0 THEN 0
  ELSE IF /\ s.nodeHitboxes[i].addButton
          /\ insideCircle(addButtonCircle(s, i), worldX, worldY)
       THEN i
  ELSE hitTestFloatingAddButtonFrom(s, i - 1, worldX, worldY)

\* worldX: (canvasX - panX) / zoom, worldY: (canvasY - panY) / zoom; the
\* canvas fills the window, so canvasX is event.clientX.
getWorldCoordinates(s, clientX, clientY) ==
  [worldX |-> fdiv(clientX - s.panX, s.zoom),
   worldY |-> fdiv(clientY - s.panY, s.zoom)]

\* The pointer position of an event at (clientX, clientY), by what the hit
\* tests find under it.  A position inside the rectangle of a hitbox is at
\* most NODE_WIDTH right of its left edge and the list holds no hitbox of the
\* root, so getActionFromPosition returns an action for it and updateHoverState
\* does not go on to the add buttons.
pointerAt(s, clientX, clientY) ==
  LET world == getWorldCoordinates(s, clientX, clientY)
      node == hitTestNodeFrom(s, Len(s.nodeHitboxes), world.worldX, world.worldY)
      add == hitTestFloatingAddButtonFrom(s, Len(s.nodeHitboxes),
                                          world.worldX, world.worldY)
  IN IF node # 0
     THEN [kind |-> "node", index |-> node,
           relX |-> world.worldX - hitboxRect(s, node).x,
           clientX |-> clientX, clientY |-> clientY]
     ELSE IF add # 0
     THEN [kind |-> "add", index |-> add, relX |-> 0,
           clientX |-> clientX, clientY |-> clientY]
     ELSE [kind |-> "none", index |-> 0, relX |-> 0,
           clientX |-> clientX, clientY |-> clientY]

\* x and y of a hitbox object of the list of s (<<>> for null): the fields a
\* hovered hitbox keeps while later renders build new lists.
originOf(s, node) ==
  IF node = NoNode THEN <<>>
  ELSE <<s.displayPositions[node.task].x,
         s.displayPositions[node.task].y - Px(NODE_HEIGHT) \div 2>>

\* nodeHitboxes.find(n => n.task === task)
findHitbox(hitboxes, task) ==
  LET hits == {i \in 1 .. Len(hitboxes) : hitboxes[i].task = task}
  IN IF hits = {} THEN NoNode
     ELSE hitboxes[CHOOSE i \in hits : \A j \in hits : i <= j]

----------------------------------------------------------------------------
(* Label editing: the input overlay *)

positionEditingInput(s) ==
  LET shown == s.editingTask # NoTask /\ s.editingTask \in DOMAIN s.displayPositions
  IN [s EXCEPT !.inputDisplay = shown,
               !.inputFocused = s.inputFocused /\ shown]

startEditingTask(s, task, parent) ==
  LET s1 == [s EXCEPT !.editingTask = task,
                      !.editingParentForRemoval = parent,
                      !.editingInitialLabel = s.label[task],
                      !.inputValue = s.label[task],
                      !.inputDisplay = TRUE]
  IN [positionEditingInput(s1) EXCEPT !.focusPending = TRUE]

----------------------------------------------------------------------------
(* Layout animation *)

\* A request that does not look at the handle.
requestAnimationFrameAgain(s) ==
  [s EXCEPT !.animationFrameHandle = TRUE, !.layoutFrames = @ + 1]

scheduleAnimationFrame(s) ==
  IF s.animationFrameHandle THEN s
  ELSE [s EXCEPT !.animationFrameHandle = TRUE, !.layoutFrames = @ + 1]

startLayoutAnimation(s, startPositions) ==
  scheduleAnimationFrame([s EXCEPT !.layoutAnimationStartPositions = <<startPositions>>,
                                   !.layoutElapsed = 0,
                                   !.layoutAnimationProgress = 0])

\* An update that goes on after the duration.
updateWithoutEnd(s) ==
  IF s.layoutAnimationStartPositions = <<>>
  THEN [s EXCEPT !.layoutAnimationProgress = Px(1)]
  ELSE scheduleAnimationFrame([s EXCEPT !.layoutAnimationProgress = Px(1)])

\* updateLayoutAnimationState(now), with now - layoutAnimationStartTime in
\* layoutElapsed.
updateLayoutAnimationState(s) ==
  IF s.layoutAnimationStartPositions = <<>>
  THEN [s EXCEPT !.layoutAnimationProgress = Px(1)]
  ELSE IF s.layoutElapsed >= LAYOUT_ANIMATION_DURATION
  THEN [s EXCEPT !.layoutAnimationStartPositions = <<>>,
                 !.layoutAnimationProgress = Px(1)]
  ELSE LET normalized == clamp(RoundDiv(Px(s.layoutElapsed), LAYOUT_ANIMATION_DURATION),
                               0, Px(1))
       IN scheduleAnimationFrame(
            [s EXCEPT !.layoutAnimationProgress = easeInOutCubic(normalized)])

getAnimatedPosition(s, task, target) ==
  IF s.layoutAnimationStartPositions = <<>> THEN target
  ELSE LET startPositions == s.layoutAnimationStartPositions[1]
       IN IF task \notin DOMAIN startPositions THEN target
          ELSE LET start == startPositions[task]
                   t == s.layoutAnimationProgress
               IN [x |-> lerp(start.x, target.x, t),
                   y |-> lerp(start.y, target.y, t)]

\* A render that does not clear the map: a task drawn before keeps the
\* position it had.
keptPositions(s, layout) ==
  [task \in DOMAIN layout |->
     IF task \in DOMAIN s.displayPositions THEN s.displayPositions[task]
     ELSE layout[task]]

drawPositionsKept(s, layout) == keptPositions(s, layout)

animatedPositions(s, layout) ==
  [task \in DOMAIN layout |-> getAnimatedPosition(s, task, layout[task])]

\* The layout positions of the tree.  They are a function of the subtasks
\* alone, so a render of subtasks that the render before has laid out takes
\* them from the memo instead of computing them again.
layoutOfTree(s) ==
  IF s.subtasks = s.laidOutSubtasks THEN s.layoutMemo
  ELSE layoutWith(s.leafCounts, s.subtasks)

\* The displayPositions map a render fills.
drawPositions(s, layout) == animatedPositions(s, layout)

----------------------------------------------------------------------------
(* Render *)

\* drawTask: the pending nodes in drawing order (pre-order, declaration
\* order) and the tasks given a display position.
RECURSIVE drawTask(_, _, _, _)
drawTask(s, task, parent, renderNode) ==
  LET self == IF renderNode THEN <<[task |-> task, parent |-> parent]>> ELSE <<>>
      RECURSIVE forEach(_)
      forEach(i) ==
        IF i > Len(s.subtasks[task]) THEN <<>>
        ELSE drawTask(s, s.subtasks[task][i], task, TRUE) \o forEach(i + 1)
  IN self \o forEach(1)

\* Seeded fault: the root is drawn as a node too.
drawTreeWithRoot(s, task) == drawTask(s, task, NoTask, TRUE)

drawTree(s, task) == drawTask(s, task, NoTask, FALSE)

\* A progress that counts the completed tasks of the whole subtree.
progressOfSubtree(s, task) ==
  [completed |-> Cardinality({t \in Subtree(s.subtasks, task) \ {task} :
                                s.taskStates[t] = "completed"}),
   total |-> Len(s.subtasks[task])]

\* drawTask: the progress of a task with children, { completed:
\* subtasks.filter(child is completed).length, total: subtasks.length }.
progressOf(s, task) ==
  [completed |-> Len(SelectSeq(s.subtasks[task],
                               LAMBDA child : s.taskStates[child] = "completed")),
   total |-> Len(s.subtasks[task])]

\* The progress of the pending nodes: one for every node with children.
progressOfNodes(s, pendingNodes) ==
  [task \in {pendingNodes[i].task : i \in {j \in 1 .. Len(pendingNodes) :
                                              s.subtasks[pendingNodes[j].task] # <<>>}}
     |-> progressOf(s, task)]

\* drawNode: progressRatio, <<>> for null, else the ratio in hundredths.
progressRatio(progress) ==
  IF progress.total > 0
  THEN LET ratio == fdiv(progress.completed, progress.total)
       IN <<IF ratio < Px(1) THEN ratio ELSE Px(1)>>
  ELSE <<>>

drawPendingNodes(s, pendingNodes) ==
  [i \in 1 .. Len(pendingNodes) |->
     [task |-> pendingNodes[i].task,
      parent |-> pendingNodes[i].parent,
      addButton |-> getFloatingAddButtonPlacement(s, pendingNodes[i].task)]]

\* render, "Select parent after deletion": the hover cursor goes to the hitbox
\* of pendingHoverTask, or is cleared when there is none.
applyPendingHover(s) ==
  [s EXCEPT !.hoveredNode = findHitbox(s.nodeHitboxes, s.pendingHoverTask),
            !.hoveredOrigin = originOf(s, findHitbox(s.nodeHitboxes, s.pendingHoverTask)),
            !.hoveredAction = "null",
            !.pendingHoverTask = NoTask]

\* Seeded fault: the pending edit request is consumed without starting the edit.
dropPendingEdit(s) ==
  [s EXCEPT !.pendingEditTask = NoTask, !.pendingEditParent = NoTask]

\* render, the pendingEditTask branch: hover the new node and start editing it.
applyPendingEdit(s) ==
  LET nodeHitbox == findHitbox(s.nodeHitboxes, s.pendingEditTask)
      s1 == IF nodeHitbox # NoNode
            THEN [s EXCEPT !.hoveredNode = nodeHitbox,
                           !.hoveredOrigin = originOf(s, nodeHitbox),
                           !.hoveredAction = "null"]
            ELSE s
      s2 == [s1 EXCEPT !.pendingEditTask = NoTask, !.pendingEditParent = NoTask]
  IN startEditingTask(s2, s.pendingEditTask, s.pendingEditParent)

\* render from drawTree on.
drawWithLayout(s, layout) ==
  [s EXCEPT !.nodeHitboxes = drawPendingNodes(s, drawTree(s, rootTask)),
            !.displayPositions = drawPositions(s, layout),
            !.leafCounts = cachedLeafCounts(s.leafCounts, s.subtasks),
            !.nodeProgress = progressOfNodes(s, drawTree(s, rootTask)),
            !.laidOutSubtasks = s.subtasks,
            !.layoutMemo = layout]

drawAll(s) == drawWithLayout(s, layoutOfTree(s))

\* render after the drawing: the pending hover, the pending edit, or the
\* input's position.
afterDrawing(s) ==
  IF s.pendingHoverTask # NoTask THEN applyPendingHover(s)
  ELSE IF s.pendingEditTask # NoTask THEN applyPendingEdit(s)
  ELSE positionEditingInput(s)

\* A render that goes on with the WeakMap it finds.
keepLeafCounts(s) == s

\* render: leafCounts = new WeakMap()
resetLeafCounts(s) == [s EXCEPT !.leafCounts = NewWeakMap]

\* render: the animation state is brought up to date, the tree is drawn, and
\* the pending requests are served, each stage on the state the one before
\* it left.
render(s) ==
  CHOOSE rendered \in
    {afterDrawing(drawn) :
       drawn \in {drawAll(updated) :
                  updated \in {resetLeafCounts(updateLayoutAnimationState(given)) :
                                given \in {s}}}} : TRUE

\* The frame callback scheduleAnimationFrame requests.
layoutFrameCallback(s) ==
  render([s EXCEPT !.animationFrameHandle = FALSE, !.layoutFrames = @ - 1])

----------------------------------------------------------------------------
(* Removing tasks *)

\* Seeded fault: the task stays in its parent's children.
keepTaskInParent(s, task, parent) == s

removeTaskFromParent(s, task, parent) ==
  IF parent = NoTask THEN s
  ELSE [s EXCEPT !.subtasks[parent] = filterOut(@, task),
                 !.taskStates = clearTaskStateRecursive(s.taskStates, s.subtasks, task)]

deleteTask(s, node) ==
  IF node.parent = NoTask THEN s
  ELSE [s EXCEPT !.subtasks[node.parent] = filterOut(@, node.task),
                 !.taskStates = clearTaskStateRecursive(s.taskStates, s.subtasks, node.task)]

finishEditingTask(s, commit) ==
  IF s.editingTask = NoTask THEN s
  ELSE
    LET task == s.editingTask
        parent == s.editingParentForRemoval
        trimmed == trim(s.inputValue)
        s1 == IF ~commit
              THEN IF trim(s.editingInitialLabel) = <<>> /\ parent # NoTask
                   THEN removeTaskFromParent(s, task, parent)
                   ELSE [s EXCEPT !.label[task] = s.editingInitialLabel]
              ELSE IF trimmed = <<>>
                   THEN IF parent # NoTask
                        THEN removeTaskFromParent(s, task, parent)
                        ELSE [s EXCEPT !.label[task] = s.editingInitialLabel]
                   ELSE [s EXCEPT !.label[task] = trimmed]
    IN render([s1 EXCEPT !.editingTask = NoTask,
                         !.editingParentForRemoval = NoTask,
                         !.editingInitialLabel = <<>>,
                         !.inputDisplay = FALSE,
                         !.inputFocused = FALSE])

----------------------------------------------------------------------------
(* The action dispatcher *)

\* Seeded fault: complete sets the entry without toggling.
setCompleted(ts, task) == [ts EXCEPT ![task] = "completed"]

\* handleAction, complete: toggles the task's own entry.
toggleCompleted(ts, task) ==
  [ts EXCEPT ![task] = IF ts[task] = "completed" THEN "default" ELSE "completed"]

\* handleAction, cancel: clears the subtree when the task is cancelled, sets
\* the subtree cancelled otherwise.
toggleCancelled(ts, st, task) ==
  IF ts[task] = "cancelled"
  THEN clearTaskStateRecursive(ts, st, task)
  ELSE setTaskStateRecursive(ts, st, task, "cancelled")

\* Seeded fault: the new task is put in front of the children.
unshiftSubtask(seq, newTask) == <<newTask>> \o seq

\* subtasks.push(newTask)
pushSubtask(seq, newTask) == Append(seq, newTask)

dispatched(s, action, node) ==
  [action |-> action, via |-> "none", task |-> node.task, parent |-> node.parent,
   pre |-> s.taskStates[node.task],
   afterCancel |-> FALSE, at |-> <<>>, nav |-> <<>>]

handleAction(s, action, node) ==
  LET task == node.task
      previousPositions == s.displayPositions
      s0 == [s EXCEPT !.last = dispatched(s, action, node)]
  IN IF action = "delete" /\ task = rootTask THEN s
     ELSE render(
       CASE action = "cancel" ->
              [s0 EXCEPT !.taskStates = toggleCancelled(s.taskStates, s.subtasks, task)]
         [] action = "complete" ->
              [s0 EXCEPT !.taskStates = toggleCompleted(s.taskStates, task)]
         [] action = "add" ->
              LET newTask == s.nextId
                  s1 == [s0 EXCEPT !.nextId = newTask + 1,
                                   !.label[newTask] = <<>>,
                                   !.subtasks[newTask] = <<>>,
                                   !.subtasks[task] = pushSubtask(@, newTask),
                                   !.taskStates[task] = "default",
                                   !.pendingEditTask = newTask,
                                   !.pendingEditParent = task]
              IN startLayoutAnimation(s1, previousPositions)
         [] action = "restore" ->
              [s0 EXCEPT !.taskStates =
                 clearTaskStateRecursive(s.taskStates, s.subtasks, task)]
         [] action = "delete" ->
              LET s1 == IF s0.hoveredNode # NoNode /\ s0.hoveredNode.task = task
                        THEN [s0 EXCEPT !.hoveredNode = NoNode, !.hoveredOrigin = <<>>,
                                        !.hoveredAction = "null"]
                        ELSE s0
                  s2 == deleteTask(s1, node)
                  s3 == IF node.parent # NoTask
                        THEN [s2 EXCEPT !.pendingHoverTask = node.parent]
                        ELSE [s2 EXCEPT !.hoveredNode = NoNode, !.hoveredOrigin = <<>>,
                                        !.hoveredAction = "null"]
              IN startLayoutAnimation(s3, previousPositions)
         [] action = "rename" -> startEditingTask(s0, task, node.parent)
         [] OTHER -> s0)

addRootChild(s) ==
  LET newTask == s.nextId
  IN render([s EXCEPT !.nextId = newTask + 1,
                      !.label[newTask] = <<>>,
                      !.subtasks[newTask] = <<>>,
                      !.subtasks[rootTask] = pushSubtask(@, newTask),
                      !.pendingEditTask = newTask,
                      !.pendingEditParent = rootTask,
                      !.last = [action |-> "addRootChild", via |-> "none",
                                task |-> rootTask, parent |-> NoTask,
                                pre |-> s.taskStates[rootTask],
                                afterCancel |-> FALSE, at |-> <<>>, nav |-> <<>>]])

----------------------------------------------------------------------------
(* Viewport: wheel zoom, smoothing loop, keyboard pan loop *)

\* Seeded fault: no frame of the smoothing loop is requested.
scheduleNoViewportAnimation(s) == s

scheduleViewportAnimation(s) ==
  IF s.viewportAnimationHandle THEN s
  ELSE [s EXCEPT !.viewportAnimationHandle = TRUE, !.viewportFrames = @ + 1]

\* A wheel listener that sets the zoom target and leaves the pan target.
wheelAboutOrigin(s, canvasX, canvasY, zoomDelta) ==
  LET newZoom == clamp(fmul(s.zoom, zoomDelta), ZOOM_MIN, ZOOM_MAX)
  IN IF newZoom = s.zoomTarget THEN s
     ELSE scheduleViewportAnimation([s EXCEPT !.zoomTarget = newZoom])

\* The wheel listener: canvasX, canvasY is the position in the canvas and
\* zoomDelta is Math.exp(-event.deltaY * ZOOM_SENSITIVITY).
wheel(s, canvasX, canvasY, zoomDelta) ==
  LET newZoom == clamp(fmul(s.zoom, zoomDelta), ZOOM_MIN, ZOOM_MAX)
      worldX == fdiv(canvasX - s.panX, s.zoom)
      worldY == fdiv(canvasY - s.panY, s.zoom)
      targetPanX == canvasX - fmul(worldX, newZoom)
      targetPanY == canvasY - fmul(worldY, newZoom)
  IN IF newZoom = s.zoomTarget THEN s
     ELSE scheduleViewportAnimation([s EXCEPT !.zoomTarget = newZoom,
                                              !.panTargetX = targetPanX,
                                              !.panTargetY = targetPanY])

\* A step that always moves by the factor and never sets the target.
approachNeverSets(current, target, factor) ==
  current + fmul(target - current, factor)

\* One value of stepViewportAnimation: moved by the factor of the remaining
\* delta, or set to the target.
approach(current, target, factor) ==
  IF Abs(target - current) > VIEWPORT_ANIMATION_EPS
  THEN current + fmul(target - current, factor)
  ELSE target

\* The frame callback of the smoothing loop.
stepViewportAnimation(s) ==
  LET moving == \/ Abs(s.panTargetX - s.panX) > VIEWPORT_ANIMATION_EPS
                \/ Abs(s.panTargetY - s.panY) > VIEWPORT_ANIMATION_EPS
                \/ Abs(s.zoomTarget - s.zoom) > VIEWPORT_ANIMATION_EPS
      s1 == [s EXCEPT !.viewportAnimationHandle = FALSE,
                      !.viewportFrames = @ - 1,
                      !.panX = approach(s.panX, s.panTargetX, PAN_ANIMATION_FACTOR),
                      !.panY = approach(s.panY, s.panTargetY, PAN_ANIMATION_FACTOR),
                      !.zoom = approach(s.zoom, s.zoomTarget, ZOOM_ANIMATION_FACTOR)]
      s2 == render(s1)
  IN IF moving THEN scheduleViewportAnimation(s2) ELSE s2

startKeyboardAnimation(s) ==
  IF s.keyboardAnimationHandle THEN s
  ELSE [s EXCEPT !.keyboardAnimationHandle = TRUE, !.keyboardFrames = @ + 1]

\* cancelAnimationFrame takes the pending callback away.
stopKeyboardAnimation(s) ==
  IF s.keyboardAnimationHandle
  THEN [s EXCEPT !.keyboardAnimationHandle = FALSE, !.keyboardFrames = @ - 1]
  ELSE s

\* The frame callback of the keyboard pan loop; deltaTime is
\* time - lastKeyboardAnimationTime in milliseconds.
stepKeyboardAnimation(s, deltaTime) ==
  LET s1 == [s EXCEPT !.keyboardAnimationHandle = FALSE, !.keyboardFrames = @ - 1]
      step == (Px(KEYBOARD_PAN_SPEED) * deltaTime) \div 1000
      panDy == (IF "w" \in s.pressedKeys THEN step ELSE 0)
               - (IF "s" \in s.pressedKeys THEN step ELSE 0)
      panDx == (IF "a" \in s.pressedKeys THEN step ELSE 0)
               - (IF "d" \in s.pressedKeys THEN step ELSE 0)
      s2 == IF panDx # 0 \/ panDy # 0
            THEN scheduleViewportAnimation([s1 EXCEPT !.panTargetX = @ + panDx,
                                                      !.panTargetY = @ + panDy])
            ELSE s1
  IN IF s.pressedKeys = {} THEN s1
     ELSE [s2 EXCEPT !.keyboardAnimationHandle = TRUE, !.keyboardFrames = @ + 1]

\* The window keyup listener.
keyup(s, key) ==
  IF s.editingTask # NoTask THEN s
  ELSE IF key \in MovementKeys
  THEN LET s1 == [s EXCEPT !.pressedKeys = @ \ {key}]
       IN IF s1.pressedKeys = {} THEN stopKeyboardAnimation(s1) ELSE s1
  ELSE s

\* The window blur listener.
windowBlur(s) == stopKeyboardAnimation([s EXCEPT !.pressedKeys = {}])

----------------------------------------------------------------------------
(* Pointer handlers *)

\* The node and the action updateHoverState finds under a pointer position.
hoverTarget(s, ptr) ==
  LET found == hitTestNode(s, ptr)
      hitNode == IF found # NoNode /\ found.task = rootTask THEN NoNode ELSE found
      action == IF hitNode # NoNode
                THEN getActionFromPosition(s, hitNode, ptr.relX) ELSE "null"
      addButtonNode == hitTestFloatingAddButton(s, ptr)
      useAdd == /\ (hitNode = NoNode \/ action = "null")
                /\ addButtonNode # NoNode
                /\ addButtonNode.task # rootTask
  IN [hitNode |-> IF useAdd THEN addButtonNode ELSE hitNode,
      action |-> IF useAdd THEN "add" ELSE action]

updateHoverState(s, ptr) ==
  IF s.isDragging THEN s
  ELSE LET target == hoverTarget(s, ptr)
       IN render([s EXCEPT !.hoveredNode = target.hitNode,
                           !.hoveredOrigin = originOf(s, target.hitNode),
                           !.hoveredAction = target.action])

\* editingInput.blur(): the blur event fires only when the input has the focus.
blurInput(s) ==
  IF s.inputFocused
  THEN IF s.editingTask = NoTask THEN [s EXCEPT !.inputFocused = FALSE]
       ELSE finishEditingTask(s, TRUE)
  ELSE s

\* The part of pointerdown in front of the hit test.
pointerdownBlur(s) ==
  IF s.editingTask # NoTask THEN blurInput(s) ELSE s

\* The part of pointerdown from the hit test on; ptr is a position as the hit
\* test of that moment sees it.
pointerdownOn(s1, ptr) ==
  IF s1.hoveredNode # NoNode /\ s1.hoveredNode.task = rootTask THEN s1
  ELSE IF s1.hoveredNode # NoNode /\ s1.hoveredAction # "null"
  THEN LET s2 == handleAction(s1, s1.hoveredAction, s1.hoveredNode)
       IN [s2 EXCEPT !.hoveredAction = "null", !.last.via = "pointer"]
  ELSE [s1 EXCEPT !.isDragging = TRUE,
                  !.dragStartX = ptr.clientX - s1.panX,
                  !.dragStartY = ptr.clientY - s1.panY]

pointerdownHit(s, ptr) == pointerdownOn(updateHoverState(s, ptr), ptr)

pointermove(s, ptr) ==
  IF s.isDragging
  THEN render([s EXCEPT !.panX = ptr.clientX - s.dragStartX,
                        !.panY = ptr.clientY - s.dragStartY,
                        !.panTargetX = ptr.clientX - s.dragStartX,
                        !.panTargetY = ptr.clientY - s.dragStartY,
                        !.zoomTarget = s.zoom])
  ELSE updateHoverState(s, ptr)

endDrag(s, ptr) ==
  IF ~s.isDragging THEN s
  ELSE updateHoverState([s EXCEPT !.isDragging = FALSE], ptr)

pointerup(s, ptr) == endDrag(s, ptr)

\* pointerleave and pointercancel
pointerleave(s, ptr) ==
  endDrag(render([s EXCEPT !.hoveredNode = NoNode, !.hoveredOrigin = <<>>,
                           !.hoveredAction = "null"]), ptr)

----------------------------------------------------------------------------
(* Keyboard handlers *)

\* The neighbour search, by its result: the nav-th hitbox, or none for nav = 0.
findDirectionalNeighbor(s, nav) ==
  IF nav \in 1 .. Len(s.nodeHitboxes) THEN s.nodeHitboxes[nav] ELSE NoNode

moveHoveredNode(s, nav) ==
  IF Len(s.nodeHitboxes) = 0 THEN s
  ELSE IF s.hoveredNode = NoNode
  THEN render([s EXCEPT !.hoveredNode = s.nodeHitboxes[1],
                        !.hoveredOrigin = originOf(s, s.nodeHitboxes[1]),
                        !.hoveredAction = "null"])
  ELSE LET neighbor == findDirectionalNeighbor(s, nav)
       IN IF neighbor = NoNode THEN s
          ELSE render([s EXCEPT !.hoveredNode = neighbor,
                                !.hoveredOrigin = originOf(s, neighbor),
                                !.hoveredAction = "null"])

Directions == {"up", "down", "left", "right"}

\* Twice the score (primary + secondary) findDirectionalNeighbor gives the
\* i-th hitbox for the origin s.hoveredOrigin, or -1 for a hitbox the search
\* passes over (dy >= 0 for "up", and so on).  The centres are
\* x + width / 2 and y + height / 2.
twiceScore(s, direction, i) ==
  LET candidate == hitboxRect(s, i)
      dx == (candidate.x + candidate.width \div 2)
            - (s.hoveredOrigin[1] + Px(NODE_WIDTH) \div 2)
      dy == (candidate.y + candidate.height \div 2)
            - (s.hoveredOrigin[2] + Px(NODE_HEIGHT) \div 2)
  IN CASE direction = "up" -> IF dy >= 0 THEN -1 ELSE 2 * Abs(dy) + Abs(dx)
       [] direction = "down" -> IF dy <= 0 THEN -1 ELSE 2 * Abs(dy) + Abs(dx)
       [] direction = "left" -> IF dx >= 0 THEN -1 ELSE 2 * Abs(dx) + Abs(dy)
       [] direction = "right" -> IF dx <= 0 THEN -1 ELSE 2 * Abs(dx) + Abs(dy)

\* Seeded fault: a later hitbox with the same score replaces the best one.
scoreNotWorse(score, bestScore) == score <= bestScore

\* score < bestScore
scoreBetter(score, bestScore) == score < bestScore

\* nodeHitboxes.forEach of findDirectionalNeighbor from the i-th hitbox on:
\* best is the index of the best hitbox so far (0: none, bestScore Infinity).
\* The test candidate === origin passes over a hitbox whose dx and dy are 0,
\* which every direction passes over as well.
RECURSIVE forEachCandidate(_, _, _, _, _)
forEachCandidate(s, direction, i, best, bestScore) ==
  IF i > Len(s.nodeHitboxes) THEN best
  ELSE LET score == twiceScore(s, direction, i)
       IN IF score >= 0 /\ (best = 0 \/ scoreBetter(score, bestScore))
          THEN forEachCandidate(s, direction, i + 1, i, score)
          ELSE forEachCandidate(s, direction, i + 1, best, bestScore)

\* The index in nodeHitboxes of findDirectionalNeighbor(hoveredNode, direction),
\* 0 for null.
neighborIndex(s, direction) ==
  IF s.hoveredNode = NoNode \/ s.hoveredOrigin = <<>> THEN 0
  ELSE forEachCandidate(s, direction, 1, 0, 0)

Keys == {"Arrow", "Space", "Enter", "r", "c", "Backspace"}

viaKey(s) == IF s.last.action # "none" THEN [s EXCEPT !.last.via = "key"] ELSE s

handled(s) == [viaKey(s) EXCEPT !.hoveredAction = "null"]

\* The switch of the keydown listener by its handleAction calls: the action a
\* shortcut dispatches on the hovered node, "none" for a key that calls none.
shortcutAction(s, key, shiftKey) ==
  CASE key = "Space" -> IF s.hoveredNode = NoNode THEN "none" ELSE "complete"
    [] key = "Enter" ->
         IF s.hoveredNode # NoNode /\ s.hoveredNode.task # rootTask
         THEN (IF shiftKey THEN "add" ELSE "rename")
         ELSE "none"
    [] key = "r" -> IF s.hoveredNode = NoNode THEN "none" ELSE "rename"
    [] key = "c" -> IF s.hoveredNode = NoNode THEN "none" ELSE "cancel"
    [] key = "Backspace" ->
         IF s.hoveredNode = NoNode THEN "none"
         ELSE IF shiftKey THEN "delete" ELSE "cancel"
    [] OTHER -> "none"

keydown(s, key, shiftKey, nav) ==
  IF s.editingTask # NoTask THEN s
  ELSE IF s.hoveredNode # NoNode /\ s.hoveredNode.task = rootTask THEN s
  ELSE IF shortcutAction(s, key, shiftKey) # "none"
  THEN handled(handleAction(s, shortcutAction(s, key, shiftKey), s.hoveredNode))
  ELSE CASE key \in MovementKeys ->
              IF key \notin s.pressedKeys
              THEN handled(startKeyboardAnimation([s EXCEPT !.pressedKeys = @ \cup {key}]))
              ELSE s
         [] key = "Arrow" -> handled(moveHoveredNode(s, nav))
         [] key = "Enter" -> IF shiftKey THEN handled(addRootChild(s)) ELSE handled(s)
         [] OTHER -> s

----------------------------------------------------------------------------
(* Listeners of the input element *)

inputInput(s, text) ==
  IF s.editingTask = NoTask THEN [s EXCEPT !.inputValue = text]
  ELSE render([s EXCEPT !.inputValue = text, !.label[s.editingTask] = text])

\* Seeded fault: Escape commits like Enter.
inputKeydownCommits(s, key) == finishEditingTask(s, TRUE)

inputKeydown(s, key) ==
  CASE key = "Enter" -> finishEditingTask(s, TRUE)
    [] key = "Escape" -> finishEditingTask(s, FALSE)
    [] OTHER -> s

inputBlur(s) == blurInput(s)

\* The callback startEditingTask schedules: input.focus(); input.select()
focusCallback(s) ==
  [s EXCEPT !.focusPending = FALSE, !.inputFocused = s.inputDisplay]

----------------------------------------------------------------------------
(* The specification *)

TypeOK ==
  /\ nextId \in SourceTasks .. MaxTasks
  /\ editingTask \in TaskIds \cup {NoTask}
  /\ DOMAIN subtasks = TaskIds
  /\ \A t \in TaskIds : taskStates[t] \in {"default", "completed", "cancelled"}

\* The literal's subtasks arrays as a function of the task.
SourceTree == [t \in TaskIds |-> IF t < SourceTasks THEN SourceSubtasks[t + 1] ELSE <<>>]

\* panX = viewport.width / 2 - (initialDepth * levelGap + NODE_WIDTH) / 2
InitialPanX ==
  LET initialDepth == maxDepth(SourceTree, rootTask, 0)
      levelGap == computeLevelGap(initialDepth, ViewportWidth)
  IN RoundDiv(Px(ViewportWidth), 2)
       - RoundDiv(initialDepth * levelGap + Px(NODE_WIDTH), 2)

\* panY = viewport.height / 2 - layoutHeight / 2
InitialPanY ==
  RoundDiv(Px(ViewportHeight), 2)
    - RoundDiv(Px(computeLayoutHeight(NewWeakMap, SourceTree, rootTask)), 2)

\* The module-level declarations, before the first render.
Constructed ==
  [subtasks |-> SourceTree,
   label |-> [t \in TaskIds |-> IF t < SourceTasks THEN SourceLabels[t + 1] ELSE <<>>],
   taskStates |-> [t \in TaskIds |-> "default"],
   nextId |-> SourceTasks,
   hoveredNode |-> NoNode,
   hoveredAction |-> "null",
   hoveredOrigin |-> <<>>,
   nodeHitboxes |-> <<>>,
   displayPositions |-> <<>>,
   editingTask |-> NoTask,
   editingParentForRemoval |-> NoTask,
   editingInitialLabel |-> <<>>,
   inputValue |-> <<>>,
   inputDisplay |-> FALSE,
   inputFocused |-> FALSE,
   focusPending |-> FALSE,
   pendingEditTask |-> NoTask,
   pendingEditParent |-> NoTask,
   pendingHoverTask |-> NoTask,
   isDragging |-> FALSE,
   dragStartX |-> 0,
   dragStartY |-> 0,
   panX |-> InitialPanX,
   panY |-> InitialPanY,
   zoom |-> Px(1),
   panTargetX |-> InitialPanX,
   panTargetY |-> InitialPanY,
   zoomTarget |-> Px(1),
   viewportAnimationHandle |-> FALSE,
   viewportFrames |-> 0,
   pressedKeys |-> {},
   keyboardAnimationHandle |-> FALSE,
   keyboardFrames |-> 0,
   layoutAnimationStartPositions |-> <<>>,
   layoutElapsed |-> LAYOUT_ANIMATION_DURATION,
   layoutAnimationProgress |-> Px(1),
   animationFrameHandle |-> FALSE,
   layoutFrames |-> 0,
   leafCounts |-> <<>>,
   nodeProgress |-> <<>>,
   laidOutSubtasks |-> <<>>,
   layoutMemo |-> <<>>,
   lambdaEvent |-> <<>>,
   lambdaResult |-> <<>>,
   heldKeys |-> {},
   inputs |-> 0,
   last |-> NoAction]

IsState(r) ==
  /\ subtasks = r.subtasks
  /\ label = r.label
  /\ taskStates = r.taskStates
  /\ nextId = r.nextId
  /\ hoveredNode = r.hoveredNode
  /\ hoveredAction = r.hoveredAction
  /\ hoveredOrigin = r.hoveredOrigin
  /\ nodeHitboxes = r.nodeHitboxes
  /\ displayPositions = r.displayPositions
  /\ editingTask = r.editingTask
  /\ editingParentForRemoval = r.editingParentForRemoval
  /\ editingInitialLabel = r.editingInitialLabel
  /\ inputValue = r.inputValue
  /\ inputDisplay = r.inputDisplay
  /\ inputFocused = r.inputFocused
  /\ focusPending = r.focusPending
  /\ pendingEditTask = r.pendingEditTask
  /\ pendingEditParent = r.pendingEditParent
  /\ pendingHoverTask = r.pendingHoverTask
  /\ isDragging = r.isDragging
  /\ dragStartX = r.dragStartX
  /\ dragStartY = r.dragStartY
  /\ panX = r.panX
  /\ panY = r.panY
  /\ zoom = r.zoom
  /\ panTargetX = r.panTargetX
  /\ panTargetY = r.panTargetY
  /\ zoomTarget = r.zoomTarget
  /\ viewportAnimationHandle = r.viewportAnimationHandle
  /\ viewportFrames = r.viewportFrames
  /\ pressedKeys = r.pressedKeys
  /\ keyboardAnimationHandle = r.keyboardAnimationHandle
  /\ keyboardFrames = r.keyboardFrames
  /\ layoutAnimationStartPositions = r.layoutAnimationStartPositions
  /\ layoutElapsed = r.layoutElapsed
  /\ layoutAnimationProgress = r.layoutAnimationProgress
  /\ animationFrameHandle = r.animationFrameHandle
  /\ layoutFrames = r.layoutFrames
  /\ leafCounts = r.leafCounts
  /\ nodeProgress = r.nodeProgress
  /\ laidOutSubtasks = r.laidOutSubtasks
  /\ layoutMemo = r.layoutMemo
  /\ lambdaEvent = r.lambdaEvent
  /\ lambdaResult = r.lambdaResult
  /\ heldKeys = r.heldKeys
  /\ inputs = r.inputs
  /\ last = r.last

\* Spec starts from the tree the user is left with after deleting "NORAM
\* scholarship" (task 2) and moving the pointer off the canvas: "Base" with its
\* child "EECS MEng".  The small tree keeps the interleavings of every handler
\* within reach; tasks are added again by the add action.
Init ==
  IsState(render([Constructed EXCEPT !.subtasks[1] = filterOut(@, 2)]))

\* The tasks of the literal that start SpecSource in the default state: the
\* root, which never has an entry, and "Rec letter 2" and "Rec letter 3".
StartDefault == {rootTask, 5, 6}

\* SpecSource starts from the tree of the rootTask literal as the first render
\* shows it, with the task states the user has toggled the tasks into (Space
\* and c toggle each task's own entry, c on a default task cancels its subtree
\* first): any assignment of states to the tasks outside StartDefault.
InitSource ==
  \E ts \in [TaskIds -> {"default", "completed", "cancelled"}] :
    /\ \A t \in TaskIds : (t \in StartDefault \/ t >= SourceTasks) => ts[t] = "default"
    /\ IsState(render([Constructed EXCEPT !.taskStates = ts]))

\* Every handler starts with nothing dispatched.
Fresh == [S EXCEPT !.last = NoAction]

\* History only: whether the handler before this one dispatched cancel on the
\* task this one dispatched restore on.
afterPrevious(r) ==
  [r EXCEPT !.last.afterCancel =
     r.last.action = "restore" /\ last.action = "cancel" /\ last.task = r.last.task]

PointerDown ==
  LET s1 == pointerdownBlur(Fresh)
  IN \E ptr \in PointerTargets(s1, RelXs) :
       /\ ptr.kind = "add" => s1.nextId < MaxTasks
       /\ Set(afterPrevious(pointerdownHit(s1, ptr)))

\* While a drag is on, the position only moves the pan; the hover state is
\* left alone.
PointerMove ==
  \E ptr \in (IF isDragging THEN {NoPointerTarget} ELSE PointerTargets(S, HoverRelXs)) :
    Set(pointermove(Fresh, ptr))

PointerUp ==
  /\ isDragging
  /\ \E ptr \in PointerTargets(S, HoverRelXs) : Set(pointerup(Fresh, ptr))

\* pointerleave and pointercancel; the position matters only to endDrag.
PointerLeave ==
  \E ptr \in (IF isDragging THEN PointerTargets(S, HoverRelXs) ELSE {NoPointerTarget}) :
    Set(pointerleave(Fresh, ptr))

KeyDown ==
  \E key \in Keys, shiftKey \in BOOLEAN, nav \in 0 .. Len(nodeHitboxes) :
    /\ (key = "Enter" /\ shiftKey) => nextId < MaxTasks
    /\ (key # "Arrow") => nav = 0
    /\ Set(keydown(Fresh, key, shiftKey, nav))

\* The click listener of the add-root-task button.  Pressing the button takes
\* the focus from the input first, which is the InputBlur step.
AddRootChildClick ==
  /\ ~inputFocused
  /\ nextId < MaxTasks
  /\ Set([addRootChild(Fresh) EXCEPT !.last.via = "button"])

InputInput ==
  /\ inputFocused
  /\ \E text \in Texts : Set(inputInput(Fresh, text))

InputKeydown ==
  /\ inputFocused
  /\ \E key \in {"Enter", "Escape"} : Set(inputKeydown(Fresh, key))

InputBlur ==
  /\ inputFocused
  /\ Set(inputBlur(Fresh))

FocusCallback ==
  /\ focusPending
  /\ Set(focusCallback(Fresh))

\* The frame callback of the layout animation, run when the duration has
\* passed since the animation started.
LateLayoutFrame ==
  /\ layoutFrames > 0
  /\ Set(layoutFrameCallback([Fresh EXCEPT !.layoutElapsed = LAYOUT_ANIMATION_DURATION]))

\* The user's events and the focus callback come when no frame of the layout
\* animation is pending: the animation of one edit has ended before the next
\* event.  (The specification of the layout animation lets events and frames
\* interleave.)
NoLayoutFrame == layoutFrames = 0

Next ==
  \/ NoLayoutFrame /\ PointerDown
  \/ NoLayoutFrame /\ PointerMove
  \/ NoLayoutFrame /\ PointerUp
  \/ NoLayoutFrame /\ PointerLeave
  \/ NoLayoutFrame /\ KeyDown
  \/ NoLayoutFrame /\ AddRootChildClick
  \/ NoLayoutFrame /\ InputInput
  \/ NoLayoutFrame /\ InputKeydown
  \/ NoLayoutFrame /\ InputBlur
  \/ NoLayoutFrame /\ FocusCallback
  \/ LateLayoutFrame

Spec == Init /\ [][Next]_vars

\* SpecSource: one pointer press or button click on the first render of the
\* source's tree, one more press on a task that has just been cancelled, and
\* the keyboard on the first node (an arrow key hovers it, a shortcut acts on
\* it).
AtStart ==
  /\ last.action = "none"
  /\ ~isDragging
  /\ hoveredNode = NoNode
  /\ editingTask = NoTask

SourcePointerDown == AtStart /\ PointerDown

SourceAddRootChildClick == AtStart /\ AddRootChildClick

PointerDownAfterCancel ==
  /\ last.action = "cancel"
  /\ \E ptr \in PointerTargets(S, RelXs) :
       /\ ptr.kind = "node"
       /\ nodeHitboxes[ptr.index].task = last.task
       /\ Set(afterPrevious(pointerdownHit(pointerdownBlur(Fresh), ptr)))

SourceKeyDown ==
  /\ last.action = "none"
  /\ ~isDragging
  /\ editingTask = NoTask
  /\ hoveredNode = NoNode \/ hoveredNode = nodeHitboxes[1]
  /\ KeyDown

NextSource ==
  \/ SourcePointerDown
  \/ SourceAddRootChildClick
  \/ SourceKeyDown
  \/ PointerDownAfterCancel

SpecSource == InitSource /\ [][NextSource]_vars

\* A handler's result as the next state, counted as one of the user's inputs.
Input(r) == Set([r EXCEPT !.inputs = @ + 1])

\* The layout animation on the source's tree as the program starts with it:
\* the pointer hovers a task, Shift+Enter adds a child to the hovered task and
\* Shift+Backspace deletes it (at most MaxInputs such edits), the edit session
\* of a new task ends by Enter or Escape, time passes in steps of half the
\* duration, and the frame callback runs whenever it is pending.
InitLayout == IsState(render(Constructed))

HoverTasks == {3, 7}

TimeSteps == {175}

LayoutHover ==
  /\ ~isDragging
  /\ \E ptr \in PointerTargets(S, HoverRelXs) :
       /\ ptr.kind = "node"
       /\ nodeHitboxes[ptr.index].task \in HoverTasks
       /\ Set(pointermove(Fresh, ptr))

LayoutEdit ==
  /\ inputs < MaxInputs
  /\ editingTask = NoTask
  /\ hoveredNode # NoNode
  /\ \E key \in {"Enter", "Backspace"} :
       /\ key = "Enter" => nextId < MaxTasks
       /\ Input(keydown(Fresh, key, TRUE, 0))

\* The clock read by the renders goes on; it matters while an animation is in
\* flight and until the duration is reached.
TimePasses ==
  /\ layoutAnimationStartPositions # <<>>
  /\ layoutElapsed < LAYOUT_ANIMATION_DURATION
  /\ \E step \in TimeSteps :
       Set([S EXCEPT !.layoutElapsed =
              IF @ + step < LAYOUT_ANIMATION_DURATION THEN @ + step
              ELSE LAYOUT_ANIMATION_DURATION])

LayoutFrame ==
  /\ layoutFrames > 0
  /\ Set(layoutFrameCallback(Fresh))

NextLayout ==
  \/ LayoutHover
  \/ LayoutEdit
  \/ TimePasses
  \/ LayoutFrame
  \/ FocusCallback
  \/ InputKeydown

SpecLayout == InitLayout /\ [][NextLayout]_vars

\* The browser runs a requested frame callback, and the clock goes on.
SpecLayoutFair ==
  SpecLayout /\ WF_vars(LayoutFrame) /\ WF_vars(TimePasses)

\* The children arrays of a tree whose tasks were created in the order of
\* their numbers, given the parent of each: a task is pushed to the end of its
\* parent's array.
RECURSIVE ascending(_)
ascending(tasks) ==
  IF tasks = {} THEN <<>>
  ELSE LET first == CHOOSE t \in tasks : \A u \in tasks : t <= u
       IN <<first>> \o ascending(tasks \ {first})

Shapes ==
  {[t \in TaskIds |->
      ascending({child \in 1 .. ShapeTasks - 1 : parents[child] = t})] :
     parents \in {f \in [1 .. ShapeTasks - 1 -> 0 .. ShapeTasks - 2] :
                    \A child \in 1 .. ShapeTasks - 1 : f[child] < child}}

\* SpecShapes: the layout of trees of every shape.  The user reaches a shape
\* by deleting tasks and adding others; task numbers are object identities,
\* and a shape is given here on the first ShapeTasks task objects, first
\* render done.  From there the pointer hovers, Shift+Enter and
\* Shift+Backspace edit the tree at the hovered node, and the animation of an
\* edit ends before the next event.
InitShapes ==
  \E tree \in Shapes : IsState(render([Constructed EXCEPT !.subtasks = tree]))

NextShapes ==
  \/ NoLayoutFrame /\ PointerMove
  \/ NoLayoutFrame /\ LayoutEdit
  \/ LateLayoutFrame

SpecShapes == InitShapes /\ [][NextShapes]_vars

\* SpecDeep: the layout of deep trees.  The trees have as many tasks as the
\* source's tree: a chain from the root down to task fork, which has the two
\* children fork + 1 and fork + 2, and a chain below fork + 2.  Events as in
\* SpecShapes.
DeepTrees ==
  {[t \in TaskIds |->
      IF t >= SourceTasks THEN <<>>
      ELSE ascending({child \in 1 .. SourceTasks - 1 :
                        IF child = fork + 2 THEN t = fork ELSE t = child - 1})] :
     fork \in 0 .. SourceTasks - 3}

InitDeep ==
  \E tree \in DeepTrees : IsState(render([Constructed EXCEPT !.subtasks = tree]))

SpecDeep == InitDeep /\ [][NextShapes]_vars

\* SpecProgress: the source's tree after the user has added a fourth letter,
\* "a", to "Recommendation letters" (task 3).  The pointer hovers that task
\* and its children, and Space, c and Backspace toggle the hovered task
\* between completed, cancelled and default.
ProgressTree == [SourceTree EXCEPT ![3] = pushSubtask(@, SourceTasks)]

ProgressTasks == {3, 4, 5, 6, SourceTasks}

InitProgress ==
  IsState(render([Constructed EXCEPT !.subtasks = ProgressTree,
                                     !.nextId = SourceTasks + 1,
                                     !.label[SourceTasks] = <<"a">>]))

ProgressHover ==
  \E ptr \in PointerTargets(S, HoverRelXs) :
    /\ ptr.kind = "node"
    /\ nodeHitboxes[ptr.index].task \in ProgressTasks
    /\ Set(pointermove(Fresh, ptr))

ProgressKey ==
  /\ hoveredNode # NoNode
  /\ \E key \in {"Space", "c", "Backspace"} : Set(keydown(Fresh, key, FALSE, 0))

NextProgress ==
  \/ ProgressHover
  \/ ProgressKey

SpecProgress == InitProgress /\ [][NextProgress]_vars

\* SpecHitTest: the hit tests by geometry.  The user has reduced the tree to a
\* chain of three tasks under the root whose last task has two children; the
\* layout squeezes the two into ranges so narrow that their rectangles
\* overlap.  The pointer moves to positions of the window (recorded in last.at,
\* history only), and c, Space and Backspace (at most MaxInputs of them) change
\* the state of the hovered task, and with it the task's action list and its
\* add button.
HitTestTree ==
  [t \in TaskIds |->
     IF t \in 0 .. 2 THEN <<t + 1>> ELSE IF t = 3 THEN <<4, 5>> ELSE <<>>]

InitHitTest == IsState(render([Constructed EXCEPT !.subtasks = HitTestTree]))

\* The position of the window that getWorldCoordinates takes to a world
\* position, at zoom 1.
clientOf(s, worldX, worldY) == <<worldX + s.panX, worldY + s.panY>>

\* Positions relative to the left edge and the centre line of a hitbox: the
\* centre of the add button, the left edge, the middle and, on the bottom
\* edge, the right edge.
HoverOffsets ==
  {<<-(Px(FLOATING_ADD_GAP) + Px(FLOATING_ADD_RADIUS)), 0>>,
   <<0, 0>>,
   <<Px(NODE_WIDTH) \div 2, 0>>,
   <<Px(NODE_WIDTH), Px(NODE_HEIGHT) \div 2>>}

\* A position of the window far from every node.
FarAway == <<-Px(NODE_WIDTH) * 100, 0>>

HoverPoints(s) ==
  {FarAway}
  \cup {clientOf(s, s.displayPositions[s.nodeHitboxes[i].task].x + offset[1],
                    s.displayPositions[s.nodeHitboxes[i].task].y + offset[2]) :
          i \in 1 .. Len(s.nodeHitboxes), offset \in HoverOffsets}

HoverAt ==
  /\ ~isDragging
  /\ \E at \in HoverPoints(S) :
       Set([pointermove(Fresh, pointerAt(S, at[1], at[2])) EXCEPT !.last.at = at])

HitTestKey ==
  /\ inputs < MaxInputs
  /\ hoveredNode # NoNode
  /\ \E key \in {"Space", "c", "Backspace"} : Input(keydown(Fresh, key, FALSE, 0))

NextHitTest ==
  \/ HoverAt
  \/ HitTestKey

SpecHitTest == InitHitTest /\ [][NextHitTest]_vars

\* SpecNavigate: the arrow keys (or h, j, k, l) on the trees of every shape,
\* with the pointer hovering a node or none between the keys.  last.nav
\* records the direction of the key, and the hovered node and its position
\* before the key (history only).
directionKey(s, direction) ==
  keydown(s, "Arrow", FALSE, neighborIndex(s, direction))

NavigateKey ==
  \E direction \in Directions :
    Set([directionKey(Fresh, direction) EXCEPT
           !.last.nav = <<direction, hoveredNode, hoveredOrigin>>])

NextNavigate ==
  \/ HoverAt
  \/ NavigateKey

SpecNavigate == InitShapes /\ [][NextNavigate]_vars

\* SpecPress: presses of the primary button on the same tree.  A press (at
\* most MaxInputs of them; its position is recorded in last.at, history only)
\* lands on an action segment, on an add button or on the background, and can
\* come while a drag is on (a second pointer of a touch screen); the pointer
\* moves between two positions of the background and is released, the
\* focus callback gives the input of an edit session the focus, and the
\* animation of an edit ends before the next event.
PressAt ==
  /\ inputs < MaxInputs
  /\ \E at \in HoverPoints(S), blurred \in {pointerdownBlur(Fresh)} :
       \E ptr \in {pointerAt(blurred, at[1], at[2])} :
         /\ ptr.kind = "add" => blurred.nextId < MaxTasks
         /\ Input([afterPrevious(pointerdownHit(blurred, ptr)) EXCEPT !.last.at = at])

MovePoints == {FarAway, <<FarAway[1] + Px(10), FarAway[2] + Px(6)>>}

MoveAt ==
  \E at \in MovePoints : Set(pointermove(Fresh, pointerAt(S, at[1], at[2])))

ReleaseAt ==
  /\ isDragging
  /\ \E at \in MovePoints : Set(pointerup(Fresh, pointerAt(S, at[1], at[2])))

NextPress ==
  \/ NoLayoutFrame /\ PressAt
  \/ NoLayoutFrame /\ MoveAt
  \/ NoLayoutFrame /\ ReleaseAt
  \/ NoLayoutFrame /\ FocusCallback
  \/ LateLayoutFrame

SpecPress == InitHitTest /\ [][NextPress]_vars

\* The viewport: the wheel, drags over the background, the movement keys, the
\* two frame callbacks, and an edit session (which makes keyup return early).
\* Positions are in the canvas, whose bounding rectangle starts at the
\* window's origin; the wheel's zoom factors are Math.exp(-deltaY * 0.0015)
\* for deltaY of 803, -93 and -732; a keyboard frame comes 1 ms after the one
\* before.
ViewportPoints ==
  { <<InitialPanX + 1000, InitialPanY + 600>>, <<InitialPanX - 700, InitialPanY>> }

ZoomDeltas == {30, 115, 300}

PressedKeys == {"w", "d"}

FrameDeltaTimes == {1}

PointerAt(ptr, point) == [ptr EXCEPT !.clientX = point[1], !.clientY = point[2]]

Wheel ==
  /\ inputs < MaxInputs
  /\ \E point \in ViewportPoints, zoomDelta \in ZoomDeltas :
       Input(wheel(Fresh, point[1], point[2], zoomDelta))

ViewportFrame ==
  /\ viewportFrames > 0
  /\ Set(stepViewportAnimation(Fresh))

\* A frame that finds a key pressed advances the pan target, so it takes from
\* the inputs.
KeyboardFrame ==
  /\ keyboardFrames > 0
  /\ pressedKeys # {} => inputs < MaxInputs
  /\ \E deltaTime \in FrameDeltaTimes :
       LET r == stepKeyboardAnimation(Fresh, deltaTime)
       IN IF pressedKeys # {} THEN Input(r) ELSE Set(r)

MovementKeyDown ==
  /\ inputs < MaxInputs
  /\ \E key \in PressedKeys \ heldKeys :
       Input([keydown(Fresh, key, FALSE, 0) EXCEPT !.heldKeys = @ \cup {key}])

KeyUp ==
  \E key \in heldKeys :
    Set([keyup(Fresh, key) EXCEPT !.heldKeys = @ \ {key}])

\* A window without the focus gets no key events: what was held counts as
\* released.
WindowBlur == Set([windowBlur(Fresh) EXCEPT !.heldKeys = {}])

DragStart ==
  /\ inputs < MaxInputs
  /\ ~isDragging
  /\ \E point \in ViewportPoints :
       Input(pointerdownHit(pointerdownBlur(Fresh), PointerAt(NoPointerTarget, point)))

DragMove ==
  /\ inputs < MaxInputs
  /\ isDragging
  /\ \E point \in ViewportPoints :
       Input(pointermove(Fresh, PointerAt(NoPointerTarget, point)))

DragEnd ==
  /\ isDragging
  /\ Set(pointerup(Fresh, NoPointerTarget))

\* A press on the rename control of a node.
RenamePress ==
  /\ inputs < MaxInputs
  /\ ~isDragging
  /\ editingTask = NoTask
  /\ \E ptr \in PointerTargets(S, RelXs) :
       \E r \in {pointerdownHit(pointerdownBlur(Fresh), ptr)} :
         r.last.action = "rename" /\ Input(r)

NextViewport ==
  \/ Wheel
  \/ ViewportFrame
  \/ KeyboardFrame
  \/ MovementKeyDown
  \/ KeyUp
  \/ WindowBlur
  \/ DragStart
  \/ DragMove
  \/ DragEnd
  \/ RenamePress
  \/ FocusCallback
  \/ InputKeydown

SpecViewport == Init /\ [][NextViewport]_vars

\* The smoothing loop on its own: wheel events at one point that ask for 1.15
\* times the zoom, the movement keys and the two frame callbacks.  The browser
\* runs a requested animation frame callback, hence the fairness of
\* ViewportFrame.
SmoothingWheel ==
  /\ inputs < MaxInputs
  /\ Input(wheel(Fresh, InitialPanX + 1000, InitialPanY + 600, 115))

NextSmoothing ==
  \/ SmoothingWheel
  \/ ViewportFrame
  \/ KeyboardFrame
  \/ MovementKeyDown
  \/ KeyUp

SpecSmoothing == Init /\ [][NextSmoothing]_vars /\ WF_vars(ViewportFrame)


----------------------------------------------------------------------------
(* Properties *)

States == {"default", "completed", "cancelled"}

\* The hitboxes a handler can pass to handleAction: those of the last render
\* (pointer) and the hovered one (keyboard).
DispatchNodes ==
  {nodeHitboxes[i] : i \in 1 .. Len(nodeHitboxes)}
  \cup (IF hoveredNode # NoNode THEN {hoveredNode} ELSE {})

\* The actions getActionsForTask offers for a state.
Allowed(action, state) ==
  IF state = "default" THEN action \in {"cancel", "rename", "complete", "add", "addRootChild"}
  ELSE action \in {"delete", "restore"}

\* C1: cancel on a task T, dispatched in any reachable state on any hitbox,
\* leaves T and every descendant of T cancelled when T was not cancelled, and
\* leaves T and every descendant of T default when T was cancelled.
C1_CancelCascades ==
  \A node \in DispatchNodes :
    LET r == handleAction(S, "cancel", node)
        after == IF taskStates[node.task] = "cancelled" THEN "default" ELSE "cancelled"
    IN \A d \in Subtree(subtasks, node.task) : r.taskStates[d] = after

\* C1 witness: cancel has just been dispatched on a task that was not
\* cancelled and has three children; the task and its descendants are
\* cancelled.
C1_Witness ==
  /\ last.action = "cancel"
  /\ last.pre # "cancelled"
  /\ Len(subtasks[last.task]) = 3
  /\ \A d \in Subtree(subtasks, last.task) : taskStates[d] = "cancelled"

\* C2: cancel on T followed by restore on T leaves T and every descendant of T
\* in state default, whatever the states in T's subtree were before.
C2_RestoreAfterCancel ==
  \A node \in DispatchNodes :
    LET r1 == handleAction(S, "cancel", node)
        fresh == findHitbox(r1.nodeHitboxes, node.task)
        node2 == IF fresh # NoNode THEN fresh ELSE node
        r2 == handleAction(r1, "restore", node2)
    IN \A d \in Subtree(subtasks, node.task) : r2.taskStates[d] = "default"

\* C2 witness: restore has just been dispatched on a task with a child, right
\* after cancel on the same task, and the subtree is default.
C2_Witness ==
  /\ last.action = "restore"
  /\ last.afterCancel
  /\ subtasks[last.task] # <<>>
  /\ \A d \in Subtree(subtasks, last.task) : taskStates[d] = "default"

\* C3 (as claimed): every task with a non-default entry in the task-state map
\* is in the tree rooted at rootTask.
C3_NoLeakedState ==
  \A t \in TaskIds : taskStates[t] # "default" => t \in InTree(subtasks)

\* C4 (as claimed): every dispatched action is one allowed for the state the
\* task had when it was dispatched, by pointer or by keyboard.
C4_OnlyAllowedActions ==
  last.action # "none" => Allowed(last.action, last.pre)

\* C4 (amended): an action dispatched by the pointer is one allowed for the
\* state the task had when it was dispatched.
C4_PointerOnlyAllowedActions ==
  last.via = "pointer" => Allowed(last.action, last.pre)

\* C4 witness: the pointer has dispatched restore on a task that was not default.
C4_Witness ==
  /\ last.via = "pointer"
  /\ last.action = "restore"
  /\ last.pre # "default"

\* C5: the root keeps its place, its label and the default state, is never
\* edited, and is neither in the hitbox list nor hovered.
C5_RootUntouched ==
  /\ \A t \in TaskIds : \A i \in 1 .. Len(subtasks[t]) : subtasks[t][i] # rootTask
  /\ label[rootTask] = SourceLabels[1]
  /\ taskStates[rootTask] = "default"
  /\ editingTask # rootTask
  /\ pendingEditTask # rootTask
  /\ \A i \in 1 .. Len(nodeHitboxes) : nodeHitboxes[i].task # rootTask
  /\ hoveredNode.task # rootTask

\* C5 witness: a child has been added to the root and a task is hovered, with
\* the root's children drawn.
C5_Witness ==
  /\ Len(subtasks[rootTask]) >= 2
  /\ Len(nodeHitboxes) >= 2
  /\ hoveredNode # NoNode
  /\ last.action = "addRootChild"

\* C6: complete on T toggles T's own entry between completed and not
\* completed, and leaves every other entry, the tree and the labels alone.
C6_CompleteOnlyTask ==
  \A node \in DispatchNodes :
    LET r == handleAction(S, "complete", node)
        T == node.task
    IN /\ r.taskStates[T] = IF taskStates[T] = "completed" THEN "default" ELSE "completed"
       /\ \A t \in TaskIds \ {T} : r.taskStates[t] = taskStates[t]
       /\ r.subtasks = subtasks
       /\ r.label = label

\* C6 witness: complete has just been dispatched on a task with a child whose
\* state is not completed.
C6_Witness ==
  /\ last.action = "complete"
  /\ taskStates[last.task] = "completed"
  /\ subtasks[last.task] # <<>>
  /\ \E d \in Subtree(subtasks, last.task) : taskStates[d] # "completed"

\* C7 for one parent P and the successor state r of an add.
AddPost(P, r) ==
  LET new == nextId
  IN /\ r.subtasks[P] = subtasks[P] \o <<new>>
     /\ new \notin InTree(subtasks)
     /\ r.label[new] = <<>>
     /\ r.subtasks[new] = <<>>
     /\ \A t \in TaskIds \ {P, new} : r.subtasks[t] = subtasks[t]
     /\ \A t \in TaskIds \ {new} : r.label[t] = label[t]
     /\ r.taskStates[P] = "default"
     /\ \A t \in TaskIds \ {P} : r.taskStates[t] = taskStates[t]

\* C7: add on P (the add action on a node, or add-root-child) appends one new
\* task with an empty label and no children as P's last child, keeps P's other
\* children in order, makes P default and changes no other task's state.
C7_AddAppendsChild ==
  nextId < MaxTasks =>
    /\ \A node \in DispatchNodes : AddPost(node.task, handleAction(S, "add", node))
    /\ AddPost(rootTask, addRootChild(S))

\* C7 witness: add has just been dispatched on a task that had a child and was
\* not default; the new task is its last child.
C7_Witness ==
  /\ last.action = "add"
  /\ last.pre # "default"
  /\ Len(subtasks[last.task]) >= 2
  /\ subtasks[last.task][Len(subtasks[last.task])] = nextId - 1
  /\ label[nextId - 1] = <<>>

\* C8: when the handler of an add returns, the task in edit mode is the new
\* child with its parent recorded for removal, and no edit request or hover
\* relocation is left pending.
C8_AddStartsEditing ==
  /\ pendingEditTask = NoTask
  /\ pendingEditParent = NoTask
  /\ pendingHoverTask = NoTask
  /\ last.action \in {"add", "addRootChild"} =>
       /\ editingTask = nextId - 1
       /\ editingParentForRemoval = last.task
       /\ editingInitialLabel = <<>>
       /\ subtasks[last.task] # <<>>
       /\ subtasks[last.task][Len(subtasks[last.task])] = editingTask

\* C8 witness: an add on a node has returned with the new child in edit mode.
C8_Witness ==
  /\ last.action = "add"
  /\ editingTask = nextId - 1
  /\ editingParentForRemoval = last.task
  /\ hoveredNode.task = editingTask

\* C9: delete on a non-root T removes T from its parent's children, keeps the
\* order of the parent's other children, and leaves the label, the children
\* and the state of every task outside T's subtree alone.
C9_DeleteRemovesSubtree ==
  \A node \in DispatchNodes :
    LET r == handleAction(S, "delete", node)
        T == node.task
        P == node.parent
        gone == Subtree(subtasks, T)
    IN /\ r.subtasks[P] = SelectSeq(subtasks[P], LAMBDA c : c # T)
       /\ \A t \in TaskIds \ {P} : r.subtasks[t] = subtasks[t]
       /\ r.label = label
       /\ \A t \in TaskIds \ gone : r.taskStates[t] = taskStates[t]
       /\ InTree(r.subtasks) = InTree(subtasks) \ gone

\* C9 witness: delete has just been dispatched on a task with a child, whose
\* parent keeps another child.
C9_Witness ==
  /\ last.action = "delete"
  /\ subtasks[last.task] # <<>>
  /\ last.task \notin InTree(subtasks)
  /\ subtasks[last.parent] # <<>>

\* C10: after a delete of T the hovered node is T's parent, or nothing when
\* the parent is the root; it is never T or a descendant of T.
C10_HoverParentAfterDelete ==
  last.action = "delete" =>
    /\ IF last.parent = rootTask THEN hoveredNode = NoNode
       ELSE hoveredNode.task = last.parent
    /\ hoveredNode.task \notin Subtree(subtasks, last.task)

\* A text of blanks only (the empty text included).
Blank(s) == \A i \in 1 .. Len(s) : s[i] = SP

\* t is s without its leading and trailing blanks.
IsTrimOf(t, s) ==
  \E i \in 0 .. Len(s) :
    /\ i + Len(t) <= Len(s)
    /\ Blank(SubSeq(s, 1, i))
    /\ SubSeq(s, i + 1, i + Len(t)) = t
    /\ Blank(SubSeq(s, i + Len(t) + 1, Len(s)))
    /\ t # <<>> => (t[1] # SP /\ t[Len(t)] # SP)

\* C11: in every reachable state with a focused edit session on T and the text
\* s in the input, Enter and blur end the session; when s is not blank, T's
\* label becomes s without its leading and trailing blanks and nothing else
\* changes; when s is blank, T and its subtree leave the tree.
C11_CommitTrimsOrRemoves ==
  (editingTask # NoTask /\ inputFocused) =>
    \A r \in {inputKeydown(S, "Enter"), inputBlur(S)} :
      LET T == editingTask
          s == inputValue
      IN /\ r.editingTask = NoTask
         /\ ~Blank(s) =>
              /\ r.label[T] # <<>>
              /\ IsTrimOf(r.label[T], s)
              /\ \A t \in TaskIds \ {T} : r.label[t] = label[t]
              /\ r.subtasks = subtasks
              /\ r.taskStates = taskStates
         /\ Blank(s) =>
              /\ editingParentForRemoval # NoTask
              /\ InTree(r.subtasks) = InTree(subtasks) \ Subtree(subtasks, T)

\* C11 witness: the text "a " typed into the session of "EECS MEng" has been
\* committed; the label is "a" and the task is still the root's child.
C11_Witness ==
  /\ editingTask = NoTask
  /\ inputValue = <<"a", SP>>
  /\ label[1] = <<"a">>
  /\ subtasks[rootTask] = <<1>>

\* C12: in every reachable state with a focused edit session on T, Escape,
\* pressed at once or after any text has been typed, gives T the label
\* captured at the start of the session and changes nothing else when that
\* label is not empty, and removes T from its parent when it is empty; the
\* label captured by a rename is the label T has.
C12_EscapeReverts ==
  /\ last.action = "rename" => editingInitialLabel = label[last.task]
  /\ (editingTask # NoTask /\ inputFocused) =>
       \A typed \in {S} \cup {inputInput(S, text) : text \in Texts} :
         LET T == editingTask
             r == inputKeydown(typed, "Escape")
         IN /\ typed.label[T] = typed.inputValue
            /\ r.editingTask = NoTask
            /\ editingInitialLabel # <<>> =>
                 /\ r.label = [label EXCEPT ![T] = editingInitialLabel]
                 /\ r.subtasks = subtasks
                 /\ r.taskStates = taskStates
            /\ editingInitialLabel = <<>> =>
                 /\ editingParentForRemoval # NoTask
                 /\ \A i \in 1 .. Len(r.subtasks[editingParentForRemoval]) :
                      r.subtasks[editingParentForRemoval][i] # T
                 /\ T \notin InTree(r.subtasks)

\* C12 witness: no task has been added, "a " has been typed into the session
\* of "EECS MEng" and the session has ended with the label as it was: it was
\* cancelled.
C12_Witness ==
  /\ editingTask = NoTask
  /\ nextId = SourceTasks
  /\ inputValue = <<"a", SP>>
  /\ label[1] = SourceLabels[2]
  /\ subtasks[rootTask] = <<1>>

\* The three animation loops together: the smoothing loop and the keyboard
\* pan loop of SpecSmoothing with the window blur, and the layout animation of
\* SpecLayout, on the tree the program starts with.
NextLoops ==
  \/ SmoothingWheel
  \/ ViewportFrame
  \/ KeyboardFrame
  \/ MovementKeyDown
  \/ KeyUp
  \/ WindowBlur
  \/ LayoutHover
  \/ LayoutEdit
  \/ TimePasses
  \/ LayoutFrame
  \/ FocusCallback
  \/ InputKeydown

SpecLoops == InitLayout /\ [][NextLoops]_vars

\* C13: in every state that wheel events, drags, keyboard panning and the
\* animation ticks can reach, the zoom and the zoom target lie in
\* [ZOOM_MIN, ZOOM_MAX] = [0.4, 2.5].
C13_ZoomInRange ==
  /\ ZOOM_MIN <= zoom /\ zoom <= ZOOM_MAX
  /\ ZOOM_MIN <= zoomTarget /\ zoomTarget <= ZOOM_MAX

\* A wheel event that asked for three times the zoom has been cut to
\* ZOOM_MAX, the ticks have brought the zoom there, and a drag has started.
C13_Witness ==
  /\ zoom = ZOOM_MAX
  /\ zoomTarget = ZOOM_MAX
  /\ isDragging

\* The state once the smoothing loop has run all its frames, with no other
\* event in between.
RECURSIVE AfterFrames(_)
AfterFrames(s) ==
  IF s.viewportFrames = 0 THEN s ELSE AfterFrames(stepViewportAnimation(s))

\* The world coordinate under the screen coordinate c.
WorldUnder(c, pan, z) == fdiv(c - pan, z)

\* C14 as stated: for a wheel event at screen point c that changes the zoom,
\* the world point under c before the event equals the world point under c
\* once the viewport has reached the targets the event set:
\* (c - panTarget) / zoomTarget = (c - pan) / zoom, exactly.
C14_WorldPointEqual ==
  \A point \in ViewportPoints, zoomDelta \in ZoomDeltas :
    LET r == wheel(S, point[1], point[2], zoomDelta)
        t == AfterFrames(r)
    IN r.zoomTarget # zoomTarget =>
         /\ WorldUnder(point[1], t.panX, t.zoom) = WorldUnder(point[1], panX, zoom)
         /\ WorldUnder(point[2], t.panY, t.zoom) = WorldUnder(point[2], panY, zoom)

\* C14: for a wheel event at screen point c that changes the zoom, the
\* viewport reaches exactly the targets the event set, and the world point
\* under c then is the world point under c before the event up to the rounding
\* of the arithmetic (one unit of the precision).
C14_WorldPointWithinRounding ==
  \A point \in ViewportPoints, zoomDelta \in ZoomDeltas :
    LET r == wheel(S, point[1], point[2], zoomDelta)
        t == AfterFrames(r)
    IN r.zoomTarget # zoomTarget =>
         /\ t.panX = r.panTargetX /\ t.panY = r.panTargetY /\ t.zoom = r.zoomTarget
         /\ Abs(WorldUnder(point[1], t.panX, t.zoom) - WorldUnder(point[1], panX, zoom)) <= 1
         /\ Abs(WorldUnder(point[2], t.panY, t.zoom) - WorldUnder(point[2], panY, zoom)) <= 1

\* One wheel event has changed the zoom and the pan, and the loop has reached
\* its targets.
C14_Witness ==
  /\ inputs = 1
  /\ zoom = zoomTarget /\ zoom # Px(1)
  /\ panX = panTargetX /\ panX # InitialPanX
  /\ panY = panTargetY
  /\ viewportFrames = 0

ViewportAtTargets ==
  /\ panX = panTargetX
  /\ panY = panTargetY
  /\ zoom = zoomTarget
  /\ ~viewportAnimationHandle
  /\ viewportFrames = 0

\* A tick moves a value whose remaining delta exceeds the epsilon by 0.15 of
\* that delta, to the precision of the arithmetic.
FractionOfDelta(current, target, next) ==
  Abs(target - current) > VIEWPORT_ANIMATION_EPS =>
    Abs(100 * (next - current) - 15 * (target - current)) <= 50

TickMovesFraction ==
  ViewportFrame =>
    /\ FractionOfDelta(panX, panTargetX, panX')
    /\ FractionOfDelta(panY, panTargetY, panY')
    /\ FractionOfDelta(zoom, zoomTarget, zoom')

\* C15: if the viewport targets stop changing, the smoothing loop ends after
\* finitely many ticks with panX = panTargetX, panY = panTargetY and
\* zoom = zoomTarget exactly and no viewport frame scheduled; before that,
\* each tick moves a value whose remaining delta exceeds the epsilon by the
\* fraction 0.15 of that delta.
C15_SmoothingTerminates ==
  /\ [][TickMovesFraction]_vars
  /\ <>[][UNCHANGED <<panTargetX, panTargetY, zoomTarget>>]_vars
       => <>[]ViewportAtTargets

\* A keyboard frame has moved the pan target by 0.8 pixels and the loop has
\* brought the pan there and stopped.
C15_Witness ==
  /\ panTargetY = InitialPanY + 80
  /\ ViewportAtTargets

\* C16: while a drag is in progress, after every pointer-move the pan is the
\* pointer position minus the offset captured at the start of the drag and
\* the pan and zoom targets equal the current values; no animation tick (of
\* an in-flight wheel zoom or of held movement keys) changes pan or zoom
\* during the drag, and none is left to do so after the release.
C16_DragBypassesSmoothing ==
  [][ /\ DragMove =>
           /\ \E point \in ViewportPoints :
                /\ panX' = point[1] - dragStartX
                /\ panY' = point[2] - dragStartY
           /\ panTargetX' = panX' /\ panTargetY' = panY' /\ zoomTarget' = zoom'
      /\ (isDragging /\ (ViewportFrame \/ KeyboardFrame)) =>
           UNCHANGED <<panX, panY, zoom>>
      /\ DragEnd => (panTargetX' = panX' /\ panTargetY' = panY' /\ zoomTarget' = zoom')
    ]_vars

\* C17: in every reachable state where none of W/A/S/D is physically held
\* (also when the key was released while a label was being edited), the set
\* of pressed keys is empty and the keyboard pan loop is not scheduled, so the
\* pan target is no longer advanced.
C17_NoKeyHeldNoPanning ==
  heldKeys = {} =>
    /\ pressedKeys = {}
    /\ ~keyboardAnimationHandle
    /\ keyboardFrames = 0

\* C18: for each of the animation loops (viewport smoothing, layout tweening,
\* keyboard panning) at most one frame callback is pending at any time, under
\* every interleaving of input events and frame callbacks, and a request to
\* schedule a loop that is already pending changes nothing.
C18_OneFramePerLoop ==
  /\ viewportFrames = (IF viewportAnimationHandle THEN 1 ELSE 0)
  /\ keyboardFrames = (IF keyboardAnimationHandle THEN 1 ELSE 0)
  /\ layoutFrames = (IF animationFrameHandle THEN 1 ELSE 0)
  /\ viewportFrames = 1 => scheduleViewportAnimation(S) = S
  /\ keyboardFrames = 1 => startKeyboardAnimation(S) = S
  /\ layoutFrames = 1 => scheduleAnimationFrame(S) = S

\* The layout loop has requested its next frame half way through an
\* animation while a frame of the smoothing loop is pending.
C18_Witness ==
  /\ layoutAnimationProgress = 50
  /\ layoutFrames = 1
  /\ viewportFrames = 1

LayoutAtRest ==
  /\ layoutAnimationStartPositions = <<>>
  /\ layoutAnimationProgress = Px(1)
  /\ ~animationFrameHandle
  /\ layoutFrames = 0

\* The start positions are cleared only by a render that finds the duration
\* elapsed, which sets the progress to 1; a render without start positions
\* requests no frame.
ClearedAtDuration ==
  /\ (layoutAnimationStartPositions # <<>> /\ layoutAnimationStartPositions' = <<>>) =>
       (layoutElapsed' >= LAYOUT_ANIMATION_DURATION /\ layoutAnimationProgress' = Px(1))
  /\ (layoutAnimationStartPositions = <<>> /\ layoutAnimationStartPositions' = <<>>) =>
       layoutFrames' <= layoutFrames

\* C19: after a layout animation has started and with no further structural
\* edit, as the frame time advances the layout loop reaches a render with
\* elapsed time >= 350 ms, at which the captured start positions are cleared
\* and the progress is 1, and after that render the loop requests no further
\* frame.
C19_LayoutAnimationEnds ==
  /\ [][ClearedAtDuration]_vars
  /\ <>[][UNCHANGED subtasks]_vars => <>[]LayoutAtRest

\* A child was added, its animation has run to the end, and the new task has
\* its place.
C19_Witness ==
  /\ LayoutAtRest
  /\ nextId = SourceTasks + 1
  /\ SourceTasks \in DOMAIN displayPositions
  /\ layoutElapsed = LAYOUT_ANIMATION_DURATION

\* C20: after every render during which no layout animation is in flight (no
\* captured start positions), the display position of every task in the tree
\* equals its freshly computed layout position.  The state is the one the
\* last render left, and a render of it leaves the same.
C20_DisplayIsLayout ==
  /\ layoutAnimationStartPositions = <<>> =>
       /\ DOMAIN displayPositions = InTree(subtasks)
       /\ \A task \in InTree(subtasks) :
            displayPositions[task] = treeLayout(subtasks)[task]
  /\ LET rendered == render(S)
     IN rendered.layoutAnimationStartPositions = <<>> =>
          rendered.displayPositions = treeLayout(subtasks)

\* A task was deleted, the animation of the others to their new places is
\* over, and the places are not the ones they had.
C20_Witness ==
  /\ layoutAnimationStartPositions = <<>>
  /\ layoutElapsed = LAYOUT_ANIMATION_DURATION
  /\ InTree(subtasks) # InTree(SourceTree)
  /\ InTree(subtasks) \subseteq InTree(SourceTree)
  /\ \E task \in InTree(subtasks) :
       displayPositions[task] # treeLayout(SourceTree)[task]

StructuralEdit == subtasks' # subtasks

StateToggle == last'.action \in {"cancel", "complete", "restore"}

AnimationStarted ==
  /\ layoutAnimationStartPositions' = <<displayPositions>>
  /\ layoutElapsed' = 0

\* C21: every structural edit of the tree (a task added by the add action or
\* by add-root-child, a task removed by delete, by an empty-label commit or by
\* cancelling the edit of an unlabeled task) starts the layout animation with
\* the display positions captured before the mutation; the state-toggle
\* actions cancel, complete and restore never start it.
C21_StructuralEditsAnimate ==
  [][/\ StructuralEdit => AnimationStarted
     /\ StateToggle => (layoutAnimationStartPositions' = <<>> /\ layoutFrames' = 0)]_vars

\* start + (target - start) * t, to the hundredth of a pixel.
Tween(start, target, t) == start + RoundDiv((target - start) * t, Px(1))

\* The positions of the last render while an animation is in flight.
TweenedOrTarget ==
  layoutAnimationStartPositions # <<>> =>
    LET startPositions == layoutAnimationStartPositions[1]
        targets == treeLayout(subtasks)
        t == layoutAnimationProgress
    IN /\ 0 <= t /\ t <= Px(1)
       /\ \A task \in InTree(subtasks) :
            /\ task \in DOMAIN displayPositions
            /\ IF task \in DOMAIN startPositions
               THEN /\ displayPositions[task].x =
                         Tween(startPositions[task].x, targets[task].x, t)
                    /\ displayPositions[task].y =
                         Tween(startPositions[task].y, targets[task].y, t)
                    /\ t = 0 => displayPositions[task] = startPositions[task]
                    /\ lerp(startPositions[task].x, targets[task].x, Px(1)) = targets[task].x
                    /\ lerp(startPositions[task].y, targets[task].y, Px(1)) = targets[task].y
               ELSE displayPositions[task] = targets[task]

\* The render of the edit that starts an animation draws every task that was
\* drawn before where it was drawn before.
FirstFrameWhereLastDrawn ==
  (last'.action \in {"add", "delete"} /\ subtasks' # subtasks) =>
    /\ layoutAnimationStartPositions' = <<displayPositions>>
    /\ \A task \in InTree(subtasks') \cap DOMAIN displayPositions :
         displayPositions'[task] = displayPositions[task]

\* C22: during a layout animation with eased progress t in [0,1], a task that
\* had a display position when the animation started is drawn at
\* start + (target - start)*t in each coordinate (at the first frame where it
\* was last drawn, also when the animation before was still in flight; at
\* t = 1 at its target), and a task that had no captured position is drawn at
\* its target position in every frame.
C22_TweenedPositions ==
  /\ []TweenedOrTarget
  /\ [][FirstFrameWhereLastDrawn]_vars

\* The source's tree less one task, for every task and parent.
TreesLessOne ==
  {[SourceTree EXCEPT ![parent] = filterOut(@, task)] :
     parent \in 0 .. SourceTasks - 1, task \in 1 .. SourceTasks - 1}

\* A second delete came while the animation of the first was in flight: a
\* task starts from a place that is its layout position in no tree there has
\* been, and a frame in the middle of the animation has drawn it between that
\* place and its target.
C22_Witness ==
  /\ layoutAnimationStartPositions # <<>>
  /\ nextId = SourceTasks
  /\ inputs = 2
  /\ 0 < layoutAnimationProgress /\ layoutAnimationProgress < Px(1)
  /\ \E task \in InTree(subtasks) \cap DOMAIN layoutAnimationStartPositions[1] :
       /\ \A tree \in TreesLessOne \cup {SourceTree} :
            task \in InTree(tree) =>
              layoutAnimationStartPositions[1][task] # treeLayout(tree)[task]
       /\ displayPositions[task] # layoutAnimationStartPositions[1][task]
       /\ displayPositions[task] # treeLayout(subtasks)[task]

\* The number of tasks without children in the subtree of the task.
Leaves(st, task) == Cardinality({t \in Subtree(st, task) : st[t] = <<>>})

\* C23: after any sequence of structural edits, the leaf count that a render
\* uses for the root and for every task equals the number of leaf tasks in
\* that task's current subtree (1 for a leaf): the memoised counts are never
\* stale with respect to the tree being laid out.  leafCounts holds the counts
\* the last render used; a render of the state uses the counts it reads from
\* the map it has after its reset.
C23_LeafCountsFresh ==
  \A task \in InTree(subtasks) :
    /\ task \in DOMAIN leafCounts
    /\ leafCounts[task] = Leaves(subtasks, task)
    /\ subtasks[task] = <<>> => leafCounts[task] = 1
    /\ getLeafCount(resetLeafCounts(S).leafCounts, subtasks, task) = Leaves(subtasks, task)

\* A task has been added to the root and the task that was the root's only
\* child has been deleted: the map holds the counts of the root and of the new
\* task, and none of a task that has left the tree.
C23_Witness ==
  /\ nextId = SourceTasks + 1
  /\ subtasks[rootTask] = <<SourceTasks>>
  /\ DOMAIN leafCounts = {rootTask, SourceTasks}
  /\ leafCounts[rootTask] = 1

\* What drawTree computes for every task of the tree in a render.
rangesOfTree(st) ==
  treeRanges(NewWeakMap, st, computeLayoutHeight(NewWeakMap, st, rootTask),
             computeLevelGap(maxDepth(st, rootTask, 0), ViewportWidth))

\* The sum of the leaves of the children of the task.
RECURSIVE LeavesOfChildren(_, _, _)
LeavesOfChildren(st, task, i) ==
  IF i > Len(st[task]) THEN 0
  ELSE Leaves(st, st[task][i]) + LeavesOfChildren(st, task, i + 1)

\* The slices of the children of the task start at its range's start, follow
\* one another in declaration order, and each has the length
\* (end - start) * leaves(child) / (leaves of all the children), rounded to
\* the precision of the ranges.
SlicesInOrder(ranges, st, task) ==
  LET children == st[task]
      span == ranges[task].end - ranges[task].start
  IN /\ ranges[children[1]].childStart = ranges[task].start
     /\ \A i \in 1 .. Len(children) - 1 :
          ranges[children[i + 1]].childStart = ranges[children[i]].childEnd
     /\ \A i \in 1 .. Len(children) :
          ranges[children[i]].childEnd - ranges[children[i]].childStart =
            RoundDiv(span * Leaves(st, children[i]), LeavesOfChildren(st, task, 1))

\* What is left of the range after the last child's slice.
SliceRest(ranges, st, task) ==
  ranges[task].end - ranges[st[task][Len(st[task])]].childEnd

Parents(st) == {task \in InTree(st) : st[task] # <<>>}

PaddedWidth(ranges, task) == ranges[task].end - ranges[task].start

\* C25: for every tree (a single deeply nested chain and deep trees with
\* branching included), the padded range [childStart + padding,
\* childEnd - padding] passed to every child has strictly positive width, at
\* every level of the recursion.
C25_PaddedRangePositive ==
  LET ranges == rangesOfTree(subtasks)
  IN \A task \in InTree(subtasks) :
       /\ PaddedWidth(ranges, task) > 0
       /\ \A i \in 1 .. Len(subtasks[task]) :
            LET child == subtasks[task][i]
                childSpan == ranges[child].childEnd - ranges[child].childStart
            IN 2 * paddingOf(childSpan, computeLayoutHeight(NewWeakMap, subtasks, rootTask))
                 < childSpan

\* A render has laid out a chain of five tasks; the margin does not fit the
\* slice of the last, whose padding is cut to less than half of it.
C25_Witness ==
  LET ranges == rangesOfTree(subtasks)
      layoutHeightValue == computeLayoutHeight(NewWeakMap, subtasks, rootTask)
  IN /\ layoutMemo = treeLayout(subtasks)
     /\ Cardinality(InTree(subtasks)) = ShapeTasks
     /\ \A task \in InTree(subtasks) : Len(subtasks[task]) <= 1
     /\ \E task \in InTree(subtasks) :
          /\ ranges[task].level = ShapeTasks - 1
          /\ paddingOf(ranges[task].childEnd - ranges[task].childStart, layoutHeightValue)
               < marginPadding(0, layoutHeightValue)

\* The number of edges from the task down to the deepest leaf of its subtree.
RECURSIVE Height(_, _)
Height(st, task) ==
  LET RECURSIVE highest(_)
      highest(i) ==
        IF i > Len(st[task]) THEN 0
        ELSE LET h == 1 + Height(st, st[task][i])
                 rest == highest(i + 1)
             IN IF h > rest THEN h ELSE rest
  IN highest(1)

\* The number of edges from the root down to the task.
RECURSIVE Level(_, _)
Level(st, task) ==
  IF task = rootTask THEN 0
  ELSE LET parent == CHOOSE p \in InTree(st) :
                       \E i \in 1 .. Len(st[p]) : st[p][i] = task
       IN 1 + Level(st, parent)

\* The level of the deepest leaf of the subtree of the task.
DeepestLeafLevel(st, task) ==
  LET levels == {Level(st, leaf) : leaf \in {t \in Subtree(st, task) : st[t] = <<>>}}
  IN CHOOSE deepest \in levels : \A l \in levels : l <= deepest

\* levelGap of a render of the tree.
LevelGapOf(st) == computeLevelGap(DeepestLeafLevel(st, rootTask), ViewportWidth)

\* C26: the layout x of every task equals (depth of the deepest leaf in its
\* subtree - its own level) * levelGap, its distance to the deepest leaf times
\* the level gap: every leaf has x = 0, two tasks with the same subtree height
\* have the same x regardless of their distance from the root, and every
\* parent's x exceeds each of its children's x by at least one level gap.  The
\* x is the one the last render computed.
C26_XByDistanceToLeaf ==
  \A task \in InTree(subtasks) :
    /\ task \in DOMAIN layoutMemo
    /\ layoutMemo[task].x = Height(subtasks, task) * LevelGapOf(subtasks)
    /\ layoutMemo[task].x =
         (DeepestLeafLevel(subtasks, task) - Level(subtasks, task)) * LevelGapOf(subtasks)
    /\ subtasks[task] = <<>> => layoutMemo[task].x = 0
    /\ \A other \in InTree(subtasks) :
         Height(subtasks, other) = Height(subtasks, task) =>
           layoutMemo[other].x = layoutMemo[task].x
    /\ \A i \in 1 .. Len(subtasks[task]) :
         layoutMemo[task].x - layoutMemo[subtasks[task][i]].x >= LevelGapOf(subtasks)
    /\ layoutAnimationStartPositions = <<>> => displayPositions[task].x = layoutMemo[task].x

\* A render has laid out a tree with two tasks of the same subtree height,
\* not leaves, at different distances from the root.
C26_Witness ==
  /\ layoutMemo = treeLayout(subtasks)
  /\ \E task, other \in InTree(subtasks) :
       /\ Height(subtasks, task) = Height(subtasks, other)
       /\ Height(subtasks, task) > 0
       /\ Level(subtasks, task) # Level(subtasks, other)
       /\ layoutMemo[task].x = layoutMemo[other].x
       /\ layoutMemo[task].x > 0

\* The number of direct children of the task whose state is completed.
CompletedChildren(task) ==
  Cardinality({i \in 1 .. Len(subtasks[task]) :
                 taskStates[subtasks[task][i]] = "completed"})

\* C27: the progress recorded for a task with children at each render is
\* (number of its direct children whose state is completed, number of its
\* direct children): grandchildren and cancelled children do not count as
\* completed, completed <= total always holds, and completing 2 of 4 children
\* gives the ratio 0.5.
C27_ProgressCountsChildren ==
  \A i \in 1 .. Len(nodeHitboxes) :
    LET task == nodeHitboxes[i].task
    IN IF subtasks[task] = <<>> THEN task \notin DOMAIN nodeProgress
       ELSE /\ task \in DOMAIN nodeProgress
            /\ nodeProgress[task].completed = CompletedChildren(task)
            /\ nodeProgress[task].total = Len(subtasks[task])
            /\ nodeProgress[task].completed <= nodeProgress[task].total
            /\ progressRatio(nodeProgress[task]) =
                 <<RoundDiv(Px(CompletedChildren(task)), Len(subtasks[task]))>>
            /\ (CompletedChildren(task) = 2 /\ Len(subtasks[task]) = 4) =>
                 progressRatio(nodeProgress[task]) = <<50>>

\* Two of the four letters are completed and one is cancelled; their parent
\* shows 2 of 4, the ratio 0.5, and the parent's parent, with two completed
\* grandchildren, shows none of its two children completed.
C27_Witness ==
  /\ 3 \in DOMAIN nodeProgress /\ 2 \in DOMAIN nodeProgress
  /\ nodeProgress[3] = [completed |-> 2, total |-> 4]
  /\ progressRatio(nodeProgress[3]) = <<50>>
  /\ \E i \in 1 .. Len(subtasks[3]) : taskStates[subtasks[3][i]] = "cancelled"
  /\ nodeProgress[2] = [completed |-> 0, total |-> 2]

----------------------------------------------------------------------------
(* Hit testing *)

\* Positions around a hitbox, relative to its left edge and its centre line:
\* across the add button and just outside it, on and just outside the left,
\* right, top and bottom edges, and on both sides of the borders between the
\* segments of a row of two and of a row of three actions.
ProbeXs ==
  {-5881, -5880, -3000, -120, -119, -1, 0, 7333, 7334, 10999, 11000,
   14666, 14667, 22000, 22001}

ProbeYs == {-2401, -2400, 0, 2400, 2401}

ProbePoints ==
  {clientOf(S, displayPositions[nodeHitboxes[i].task].x + dx,
               displayPositions[nodeHitboxes[i].task].y + dy) :
     i \in 1 .. Len(nodeHitboxes), dx \in ProbeXs, dy \in ProbeYs}

\* The hitboxes whose rectangle contains a world position.
Containing(worldX, worldY) ==
  {i \in 1 .. Len(nodeHitboxes) : insideRect(hitboxRect(S, i), worldX, worldY)}

\* The add buttons whose circle contains a world position.
AddRegions(worldX, worldY) ==
  {i \in 1 .. Len(nodeHitboxes) :
     nodeHitboxes[i].addButton /\ insideCircle(addButtonCircle(S, i), worldX, worldY)}

\* min(n - 1, floor(relativeX / (NODE_WIDTH / n))) for relativeX from 0 to
\* NODE_WIDTH: the last segment, or the segment whose right border is beyond
\* relativeX.
SegmentOf(relativeX, n) ==
  CHOOSE k \in 0 .. n - 1 :
    /\ k * Px(NODE_WIDTH) <= relativeX * n
    /\ k = n - 1 \/ relativeX * n < (k + 1) * Px(NODE_WIDTH)

HitAt(at) ==
  LET world == getWorldCoordinates(S, at[1], at[2])
      over == Containing(world.worldX, world.worldY)
      target == hoverTarget(S, pointerAt(S, at[1], at[2]))
  IN /\ over # {} =>
          LET top == CHOOSE i \in over : \A j \in over : j <= i
              allowed == getActionsForTask(S, nodeHitboxes[top].task)
              relativeX == world.worldX - hitboxRect(S, top).x
          IN /\ target.hitNode = nodeHitboxes[top]
             /\ target.action = allowed[SegmentOf(relativeX, Len(allowed)) + 1]
             /\ Allowed(target.action, taskStates[nodeHitboxes[top].task])
     /\ (over = {} /\ AddRegions(world.worldX, world.worldY) = {}) =>
          target.hitNode = NoNode

\* C28: hit-testing a pointer position returns the last hitbox in list order
\* that contains it, the action is the one at index
\* min(n - 1, floor(relativeX / (NODE_WIDTH / n))) of the node's allowed-action
\* list and so is allowed for the node's state, and a position inside no node
\* and no add-button region yields no hovered node; the hovered node and
\* action after a pointer move to a position are the ones so found.
C28_TopmostHitboxWins ==
  /\ \A at \in ProbePoints : HitAt(at)
  /\ last.at # <<>> =>
       LET world == getWorldCoordinates(S, last.at[1], last.at[2])
           over == Containing(world.worldX, world.worldY)
       IN /\ over # {} =>
               /\ hoveredNode = nodeHitboxes[CHOOSE i \in over : \A j \in over : j <= i]
               /\ Allowed(hoveredAction, taskStates[hoveredNode.task])
          /\ (over = {} /\ AddRegions(world.worldX, world.worldY) = {}) =>
               hoveredNode = NoNode

\* The pointer has moved to a position inside the rectangles of two hitboxes,
\* and the hovered node is the later one of the list, hovered on its last
\* action.
C28_Witness ==
  /\ last.at # <<>>
  /\ LET world == getWorldCoordinates(S, last.at[1], last.at[2])
     IN /\ Cardinality(Containing(world.worldX, world.worldY)) = 2
        /\ \E i \in Containing(world.worldX, world.worldY) :
             /\ hoveredNode = nodeHitboxes[i]
             /\ \E j \in Containing(world.worldX, world.worldY) : j < i
  /\ hoveredAction = "complete"

----------------------------------------------------------------------------
(* Presses *)

\* A position of the window is on an action of state s: inside the rectangle
\* of a hitbox or inside the circle of an add button.
LandsOnAction(s, at) ==
  LET world == getWorldCoordinates(s, at[1], at[2])
  IN \E i \in 1 .. Len(s.nodeHitboxes) :
       \/ insideRect(hitboxRect(s, i), world.worldX, world.worldY)
       \/ /\ s.nodeHitboxes[i].addButton
          /\ insideCircle(addButtonCircle(s, i), world.worldX, world.worldY)

\* The step is a press: only a press records its position.
PressStep == last'.at # <<>>

\* The action of the step was performed once on what the press found after the
\* blur: a toggle has changed the task's state (twice would restore it), add
\* has made one task, delete has taken the task out of the tree, rename has
\* opened the edit session.
ActedOnce(blurred) ==
  /\ last'.via = "pointer"
  /\ last'.action \in {"cancel", "complete", "restore"} =>
       taskStates'[last'.task] # blurred.taskStates[last'.task]
  /\ last'.action = "add" =>
       /\ nextId' = blurred.nextId + 1
       /\ Len(subtasks'[last'.task]) = Len(blurred.subtasks[last'.task]) + 1
  /\ last'.action = "delete" =>
       /\ last'.task \in InTree(blurred.subtasks)
       /\ last'.task \notin InTree(subtasks')
  /\ last'.action = "rename" => editingTask' = last'.task

PressOnAction(blurred) ==
  /\ last'.action # "none"
  /\ ActedOnce(blurred)
  /\ ~isDragging'
  /\ dragStartX' = dragStartX
  /\ dragStartY' = dragStartY

PressOnBackground ==
  /\ last'.action = "none"
  /\ isDragging'
  /\ dragStartX' = last'.at[1] - panX
  /\ dragStartY' = last'.at[2] - panY

\* Outside a drag a step that is no press leaves the pan alone.
PanKeptOutsideDrag ==
  (~isDragging /\ ~PressStep) => (panX' = panX /\ panY' = panY)

\* C29: a press that lands on an action performs it once and
\* starts no drag, and later pointer moves leave the pan alone; a press that
\* lands on no action starts a drag and performs no action, so no press both
\* changes the tree or the task states and starts a drag.
C29_ActionXorDrag ==
  [][/\ PressStep =>
          IF LandsOnAction(pointerdownBlur(S), last'.at)
          THEN PressOnAction(pointerdownBlur(S))
          ELSE /\ PressOnBackground
               /\ subtasks' = subtasks
               /\ taskStates' = taskStates
               /\ label' = label
     /\ PanKeptOutsideDrag]_vars

----------------------------------------------------------------------------
(* Keys during an edit session *)

\* A keydown on the window changes nothing of the program's state.
KeydownsMuted ==
  \A key \in Keys \cup MovementKeys, shiftKey \in BOOLEAN,
     nav \in 0 .. Len(nodeHitboxes) :
    keydown(Fresh, key, shiftKey, nav) = Fresh

\* A pending frame of the keyboard pan loop leaves the pan target alone.
FramesMuted ==
  keyboardFrames > 0 =>
    \A deltaTime \in FrameDeltaTimes :
      /\ stepKeyboardAnimation(Fresh, deltaTime).panTargetX = panTargetX
      /\ stepKeyboardAnimation(Fresh, deltaTime).panTargetY = panTargetY

\* C30: while a task is in edit mode no keyboard shortcut of the window has an
\* effect: a keydown dispatches no action, does not move the hover and starts
\* no movement, and no movement key goes on advancing the pan target.
C30_EditingMutesKeys ==
  editingTask # NoTask => (KeydownsMuted /\ FramesMuted)

----------------------------------------------------------------------------
(* The hitbox list and the hovered hitbox *)

\* The list holds exactly one hitbox for each task of the tree but the root.
OneHitboxPerTask ==
  /\ {nodeHitboxes[i].task : i \in 1 .. Len(nodeHitboxes)} = InTree(subtasks) \ {rootTask}
  /\ \A i, j \in 1 .. Len(nodeHitboxes) :
       nodeHitboxes[i].task = nodeHitboxes[j].task => i = j

\* The hovered hitbox, which the keyboard handlers dispatch on and navigate
\* from, agrees with a hitbox of the list in the fields they read: the task,
\* the parent and the position.
HoveredIsCurrent ==
  hoveredNode # NoNode =>
    \E i \in 1 .. Len(nodeHitboxes) :
      /\ nodeHitboxes[i].task = hoveredNode.task
      /\ nodeHitboxes[i].parent = hoveredNode.parent
      /\ originOf(S, nodeHitboxes[i]) = hoveredOrigin

\* C31: no stale hitbox is consulted: the hitbox the input handlers use is one
\* of the list built by the most recent render, and that list holds exactly
\* one hitbox for each task of the tree other than the root.
C31_NoStaleHitbox == OneHitboxPerTask /\ HoveredIsCurrent

----------------------------------------------------------------------------
(* The presign handler (infrastructure/lambda/index.js) *)

\* JavaScript values as JSON.parse makes them.  A string is a sequence of
\* characters, a number is a natural, and an object is the sequence of its
\* members <<name, value>> in the order of the text; a name written twice
\* has the value written last.
JsUndefined == [type |-> "undefined"]

JsNull == [type |-> "null"]

JsBoolean(b) == [type |-> "boolean", b |-> b]

JsNumber(n) == [type |-> "number", n |-> n]

JsString(chars) == [type |-> "string", chars |-> chars]

JsObject(members) == [type |-> "object", members |-> members]

\* A text is a sequence of tokens: the punctuation of JSON and its literals
\* (null, true, false, numbers and strings).
Punct(p) == [punct |-> p]

Lit(value) == [literal |-> value]

IsLit(token) == "literal" \in DOMAIN token

IsPunct(token, p) == "punct" \in DOMAIN token /\ token.punct = p

Failed == [ok |-> FALSE, value |-> JsUndefined, rest |-> <<>>]

\* JSON.parse on values and objects (request bodies hold no arrays): the
\* value at the head of the tokens and the tokens after it.
RECURSIVE parseValue(_)
RECURSIVE parseMembers(_, _)
parseValue(tokens) ==
  IF tokens = <<>> THEN Failed
  ELSE IF IsLit(Head(tokens))
  THEN [ok |-> TRUE, value |-> Head(tokens).literal, rest |-> Tail(tokens)]
  ELSE IF IsPunct(Head(tokens), "{")
  THEN IF Len(tokens) >= 2 /\ IsPunct(tokens[2], "}")
       THEN [ok |-> TRUE, value |-> JsObject(<<>>), rest |-> Tail(Tail(tokens))]
       ELSE parseMembers(Tail(tokens), <<>>)
  ELSE Failed

parseMembers(tokens, members) ==
  IF Len(tokens) < 3 THEN Failed
  ELSE IF ~(IsLit(tokens[1]) /\ tokens[1].literal.type = "string") THEN Failed
  ELSE IF ~IsPunct(tokens[2], ":") THEN Failed
  ELSE LET parsed == parseValue(Tail(Tail(tokens)))
           withMember == Append(members, <<tokens[1].literal.chars, parsed.value>>)
       IN IF ~parsed.ok \/ parsed.rest = <<>> THEN Failed
          ELSE IF IsPunct(Head(parsed.rest), "}")
          THEN [ok |-> TRUE, value |-> JsObject(withMember), rest |-> Tail(parsed.rest)]
          ELSE IF IsPunct(Head(parsed.rest), ",")
          THEN parseMembers(Tail(parsed.rest), withMember)
          ELSE Failed

\* JSON.parse(text): the value, or a SyntaxError.
JSONparse(tokens) ==
  LET parsed == parseValue(tokens)
  IN IF parsed.ok /\ parsed.rest = <<>>
     THEN [threw |-> FALSE, value |-> parsed.value]
     ELSE [threw |-> TRUE, value |-> JsUndefined]

\* JSON.stringify of a value.
RECURSIVE JSONstringify(_)
JSONstringify(value) ==
  IF value.type # "object" THEN <<Lit(value)>>
  ELSE LET RECURSIVE members(_)
           members(k) ==
             IF k > Len(value.members) THEN <<>>
             ELSE (IF k > 1 THEN <<Punct(",")>> ELSE <<>>)
                  \o <<Lit(JsString(value.members[k][1])), Punct(":")>>
                  \o JSONstringify(value.members[k][2])
                  \o members(k + 1)
       IN <<Punct("{")>> \o members(1) \o <<Punct("}")>>

\* A request body: the text the client wrote and whether the client sent it
\* base64-encoded.  No body is the empty text.
NoBody == [base64 |-> FALSE, text |-> <<>>]

\* A text that is no JSON: what Buffer.from(body, "base64") gives for a body
\* that was sent as plain JSON, and what a base64 body read as plain text is.
NotJson == <<Punct("}")>>

\* parseBody(body, isBase64Encoded)
parseBody(body, isBase64Encoded) ==
  LET decoded == IF isBase64Encoded = body.base64 THEN body.text ELSE NotJson
  IN JSONparse(decoded)

\* value.name: a TypeError on null, the member written last on an object,
\* undefined on the other values.
Get(value, name) ==
  IF value.type = "null" \/ value.type = "undefined"
  THEN [threw |-> TRUE, value |-> JsUndefined]
  ELSE IF value.type # "object" THEN [threw |-> FALSE, value |-> JsUndefined]
  ELSE LET owned == {k \in 1 .. Len(value.members) : value.members[k][1] = name}
       IN IF owned = {} THEN [threw |-> FALSE, value |-> JsUndefined]
          ELSE [threw |-> FALSE,
                value |-> value.members[CHOOSE k \in owned : \A j \in owned : j <= k][2]]

Truthy(value) ==
  CASE value.type = "undefined" -> FALSE
    [] value.type = "null" -> FALSE
    [] value.type = "boolean" -> value.b
    [] value.type = "number" -> value.n # 0
    [] value.type = "string" -> value.chars # <<>>
    [] OTHER -> TRUE

DigitChars == <<"0", "1", "2", "3", "4", "5", "6", "7", "8", "9">>

RECURSIVE Digits(_)
Digits(n) ==
  IF n < 10 THEN <<DigitChars[n + 1]>>
  ELSE Digits(n \div 10) \o <<DigitChars[(n % 10) + 1]>>

\* The member names toString and valueOf.
ToStringName == <<"t", "o", "S", "t", "r", "i", "n", "g">>

ObjectObject ==
  <<"[", "o", "b", "j", "e", "c", "t", SP, "O", "b", "j", "e", "c", "t", "]">>

\* String(value).  An object of a parsed body has no function among its
\* members: its own toString member hides Object.prototype.toString, valueOf
\* gives the object back, and the conversion throws a TypeError.
String(value) ==
  CASE value.type = "string" -> [threw |-> FALSE, chars |-> value.chars]
    [] value.type = "number" -> [threw |-> FALSE, chars |-> Digits(value.n)]
    [] value.type = "boolean" ->
         [threw |-> FALSE,
          chars |-> IF value.b THEN <<"t", "r", "u", "e">>
                    ELSE <<"f", "a", "l", "s", "e">>]
    [] value.type = "null" -> [threw |-> FALSE, chars |-> <<"n", "u", "l", "l">>]
    [] value.type = "undefined" ->
         [threw |-> FALSE, chars |-> <<"u", "n", "d", "e", "f", "i", "n", "e", "d">>]
    [] OTHER ->
         IF Get(value, ToStringName).value.type # "undefined"
         THEN [threw |-> TRUE, chars |-> <<>>]
         ELSE [threw |-> FALSE, chars |-> ObjectObject]

\* The characters /[^a-zA-Z0-9-_.]/ leaves alone.
SafeChars ==
  {"a", "b", "c", "d", "e", "f", "g", "h", "i", "j", "k", "l", "m", "n", "o",
   "p", "q", "r", "s", "t", "u", "v", "w", "x", "y", "z",
   "A", "B", "C", "D", "E", "F", "G", "H", "I", "J", "K", "L", "M", "N", "O",
   "P", "Q", "R", "S", "T", "U", "V", "W", "X", "Y", "Z",
   "0", "1", "2", "3", "4", "5", "6", "7", "8", "9", "-", "_", "."}

\* raw.replace(/[^a-zA-Z0-9-_.]/g, "-")
replaceUnsafe(raw) ==
  [k \in 1 .. Len(raw) |-> IF raw[k] \in SafeChars THEN raw[k] ELSE "-"]

StateJson == <<"s", "t", "a", "t", "e", ".", "j", "s", "o", "n">>

\* getStorageKey(requestBody)
getStorageKey(requestBody) ==
  LET key == Get(requestBody, <<"k", "e", "y">>).value
      raw == String(key)
  IN IF ~Truthy(key) THEN [threw |-> FALSE, chars |-> StateJson]
     ELSE IF raw.threw THEN raw
     ELSE IF trim(raw.chars) = <<>> THEN [threw |-> FALSE, chars |-> StateJson]
     ELSE [threw |-> FALSE,
           chars |-> <<"u", "s", "e", "r", "-", "s", "t", "a", "t", "e", "/">>
                     \o replaceUnsafe(trim(raw.chars))
                     \o <<".", "j", "s", "o", "n">>]

makeCorsHeaders ==
  {"Access-Control-Allow-Origin", "Access-Control-Allow-Headers",
   "Access-Control-Allow-Methods"}

\* response(statusCode, bodyObj)
response(statusCode, bodyObj) ==
  [statusCode |-> statusCode,
   headers |-> {"Content-Type"} \cup makeCorsHeaders,
   body |-> JSONstringify(bodyObj)]

\* An exception that leaves the handler: the promise it returned is rejected.
Thrown(error) == [thrown |-> error]

\* {error: message}; a message is kept whole, as one character.
ErrorBody(message) == JsObject(<< <<<<"e", "r", "r", "o", "r">>, JsString(message)>> >>)

\* The password the function is configured with (process.env.API_PASSWORD; the
\* module throws at load time when it is empty).
API_PASSWORD == <<"p", "w">>

PRESIGN_EXPIRES_SECONDS == 3600

\* getSignedUrl(s3, command, {expiresIn}): a URL for the command's operation
\* on the key.
getSignedUrl(operation, key) == JsString(operation \o <<":">> \o key)

\* password !== API_PASSWORD
passwordMismatch(password) == password # API_PASSWORD

\* exports.handler.  event.presign is the environment's part of the event:
\* whether the presigning of the write URL or of the read URL is rejected.
handler(event) ==
  LET method == IF event.httpMethod # "" THEN event.httpMethod
                ELSE IF event.contextMethod # "" THEN event.contextMethod
                ELSE "GET"
      parsed == IF event.body.text # <<>>
                THEN parseBody(event.body, event.isBase64Encoded)
                ELSE [threw |-> FALSE, value |-> JsObject(<<>>)]
      parsedBody == parsed.value
      supplied == Get(parsedBody, <<"p", "a", "s", "s", "w", "o", "r", "d">>)
      password == String(IF Truthy(supplied.value) THEN supplied.value
                         ELSE JsString(<<>>))
      key == getStorageKey(parsedBody)
  IN IF method = "OPTIONS"
     THEN [statusCode |-> 204, headers |-> makeCorsHeaders, body |-> <<>>]
     ELSE IF parsed.threw
     THEN response(400, ErrorBody(<<"Request body must be valid JSON">>))
     ELSE IF supplied.threw \/ password.threw THEN Thrown("TypeError")
     ELSE IF password.chars = <<>>
     THEN response(400, ErrorBody(<<"Missing password">>))
     ELSE IF passwordMismatch(password.chars)
     THEN response(401, ErrorBody(<<"Invalid password">>))
     ELSE IF key.threw THEN Thrown("TypeError")
     ELSE IF event.presign # "ok"
     THEN response(500, ErrorBody(<<"Internal server error">>))
     ELSE response(200,
            JsObject(<< <<<<"k", "e", "y">>, JsString(key.chars)>>,
                        <<<<"r", "e", "a", "d", "U", "r", "l">>,
                          getSignedUrl(<<"G", "E", "T">>, key.chars)>>,
                        <<<<"w", "r", "i", "t", "e", "U", "r", "l">>,
                          getSignedUrl(<<"P", "U", "T">>, key.chars)>>,
                        <<<<"e", "x", "p", "i", "r", "e", "s", "I", "n">>,
                          JsNumber(PRESIGN_EXPIRES_SECONDS)>> >>))

\* SpecPresign: invocations of the presign handler.  The method comes in
\* event.httpMethod or in event.requestContext.http.method; the body is absent
\* or one of the texts below, sent plain or base64-encoded, with the event's
\* isBase64Encoded flag right or wrong; the presigning succeeds or is rejected.
Password == <<"p", "a", "s", "s", "w", "o", "r", "d">>

Member(name, value) == <<Lit(JsString(name)), Punct(":"), Lit(value)>>

Object(members) == <<Punct("{")>> \o members \o <<Punct("}")>>

OwnToString == Object(Member(ToStringName, JsNumber(1)))

BodyTexts ==
  { <<Punct("{")>>,
    <<Lit(JsNull)>>,
    <<Lit(JsNumber(5))>>,
    <<Lit(JsBoolean(TRUE))>>,
    <<Lit(JsString(API_PASSWORD))>>,
    Object(<<>>),
    Object(Member(Password, JsString(<<>>))),
    Object(Member(Password, JsString(API_PASSWORD))),
    Object(Member(Password, JsString(<<"p">>))),
    Object(Member(Password, JsNull)),
    Object(Member(Password, JsNumber(0))),
    Object(Member(Password, JsNumber(12))),
    Object(<<Lit(JsString(Password)), Punct(":")>> \o Object(<<>>)),
    Object(<<Lit(JsString(Password)), Punct(":")>> \o OwnToString),
    Object(Member(Password, JsString(API_PASSWORD)) \o <<Punct(",")>>
           \o Member(Password, JsString(<<"p">>))),
    Object(Member(Password, JsString(<<"p">>)) \o <<Punct(",")>>
           \o Member(Password, JsString(API_PASSWORD))),
    Object(Member(Password, JsString(API_PASSWORD)) \o <<Punct(",")>>
           \o Member(<<"k", "e", "y">>, JsString(<<SP, "a", "/", "b", SP>>))),
    Object(Member(Password, JsString(API_PASSWORD)) \o <<Punct(",")>>
           \o Member(<<"k", "e", "y">>, JsString(<<SP>>))),
    Object(Member(Password, JsString(API_PASSWORD)) \o <<Punct(",")>>
           \o <<Lit(JsString(<<"k", "e", "y">>)), Punct(":")>> \o OwnToString),
    Object(Member(Password, JsString(API_PASSWORD)) \o <<Punct(",")>>) }

Events ==
  [httpMethod : {"", "OPTIONS", "POST"},
   contextMethod : {"", "OPTIONS"},
   body : {NoBody} \cup [base64 : BOOLEAN, text : BodyTexts],
   isBase64Encoded : BOOLEAN,
   presign : {"ok", "putRejected", "getRejected"}]

\* The handler keeps nothing from one invocation to the next, so a behaviour
\* holds one invocation.
Invoke ==
  /\ lambdaEvent = <<>>
  /\ \E event \in Events :
       Set([Fresh EXCEPT !.lambdaEvent = event, !.lambdaResult = handler(event)])

NextPresign == Invoke

SpecPresign == Init /\ [][NextPresign]_vars

----------------------------------------------------------------------------
(* The responses of the presign handler *)

\* The method, the body text as the handler decodes it, and the password the
\* body supplies, read off the event without the handler's operators.
MethodOf(event) ==
  IF event.httpMethod # "" THEN event.httpMethod
  ELSE IF event.contextMethod # "" THEN event.contextMethod ELSE "GET"

Returned(result) == "statusCode" \in DOMAIN result

\* The members of the object a response body is the JSON text of.
BodyMembers(result) ==
  LET parsed == JSONparse(result.body)
  IN IF result.body = <<>> \/ parsed.threw \/ parsed.value.type # "object" THEN {}
     ELSE {parsed.value.members[k][1] : k \in 1 .. Len(parsed.value.members)}

HasUrls(result) ==
  /\ Returned(result)
  /\ BodyMembers(result) \cap {<<"r", "e", "a", "d", "U", "r", "l">>,
                               <<"w", "r", "i", "t", "e", "U", "r", "l">>} # {}

\* The body, decoded as the flag says, is the text of an object whose
\* password member (the last one written) is the string configured.
SuppliesPassword(event) ==
  /\ event.body.text # <<>>
  /\ event.isBase64Encoded = event.body.base64
  /\ LET text == event.body.text
         names == {k \in 1 .. Len(text) :
                     /\ k > 1 /\ k < Len(text)
                     /\ text[k] = Lit(JsString(Password))
                     /\ IsPunct(text[k + 1], ":")
                     /\ IsPunct(text[k - 1], "{") \/ IsPunct(text[k - 1], ",")}
     IN /\ names # {}
        /\ text[(CHOOSE k \in names : \A j \in names : j <= k) + 2]
             = Lit(JsString(API_PASSWORD))

\* C32: the handler answers OPTIONS with 204, and otherwise with 400, 401, 500
\* or 200, 200 with readUrl, writeUrl and expiresIn; it returns one of these
\* for every request (it never throws), and it returns URLs only when the
\* supplied password equals the configured one.
C32_PresignResponses ==
  lambdaEvent # <<>> =>
    /\ Returned(lambdaResult)
    /\ lambdaResult.statusCode \in {204, 400, 401, 500, 200}
    /\ MethodOf(lambdaEvent) = "OPTIONS" <=> lambdaResult.statusCode = 204
    /\ lambdaResult.statusCode = 200 <=> HasUrls(lambdaResult)
    /\ lambdaResult.statusCode = 200 =>
         BodyMembers(lambdaResult) =
           {<<"k", "e", "y">>, <<"r", "e", "a", "d", "U", "r", "l">>,
            <<"w", "r", "i", "t", "e", "U", "r", "l">>,
            <<"e", "x", "p", "i", "r", "e", "s", "I", "n">>}
    /\ HasUrls(lambdaResult) => SuppliesPassword(lambdaEvent)
    /\ lambdaResult.statusCode = 500 =>
         (SuppliesPassword(lambdaEvent) /\ lambdaEvent.presign # "ok")


----------------------------------------------------------------------------
(* Directional navigation *)

\* Centre of the i-th hitbox of the list, and of a hitbox at (x, y).
CentreOf(x, y) == <<x + Px(NODE_WIDTH) \div 2, y + Px(NODE_HEIGHT) \div 2>>

CentreOfHitbox(i) ==
  CentreOf(displayPositions[nodeHitboxes[i].task].x,
           displayPositions[nodeHitboxes[i].task].y - Px(NODE_HEIGHT) \div 2)

\* Signed distance of a centre from the origin's centre along the primary
\* axis of a direction, positive on the requested side.
Along(direction, from, to) ==
  CASE direction = "up" -> from[2] - to[2]
    [] direction = "down" -> to[2] - from[2]
    [] direction = "left" -> from[1] - to[1]
    [] direction = "right" -> to[1] - from[1]

Across(direction, from, to) ==
  IF direction \in {"up", "down"} THEN Abs(to[1] - from[1])
  ELSE Abs(to[2] - from[2])

\* Twice primaryAxisDistance + 0.5 * secondaryAxisDistance.
TwiceDistance(direction, from, to) ==
  2 * Along(direction, from, to) + Across(direction, from, to)

OnSide(direction, from) ==
  {i \in 1 .. Len(nodeHitboxes) : Along(direction, from, CentreOfHitbox(i)) > 0}

Nearest(direction, from) ==
  {i \in OnSide(direction, from) :
     \A j \in OnSide(direction, from) :
       TwiceDistance(direction, from, CentreOfHitbox(i))
         <= TwiceDistance(direction, from, CentreOfHitbox(j))}

\* The hovered node after a directional key, given the node hovered before the
\* key and the position of its hitbox.
NavigationTarget(direction, node, origin) ==
  IF Len(nodeHitboxes) = 0 THEN node
  ELSE IF node = NoNode THEN nodeHitboxes[1]
  ELSE LET nearest == Nearest(direction, CentreOf(origin[1], origin[2]))
       IN IF nearest = {} THEN node
          ELSE nodeHitboxes[CHOOSE i \in nearest : \A j \in nearest : i <= j]

KeysHeard == editingTask = NoTask /\ (hoveredNode # NoNode => hoveredNode.task # rootTask)

\* C33: a directional key pressed while a node is hovered moves the hover to
\* the hitbox that, among those whose centre is strictly on the requested side
\* of the origin's centre, has the least primary distance + 0.5 * secondary
\* distance, the first of the list on a tie; the hover stays when no hitbox is
\* on that side; with no node hovered the key hovers the first hitbox.  Holds
\* for the key pressed in every reachable state and in the state after a key.
C33_NearestOnSide ==
  /\ KeysHeard =>
       \A direction \in Directions :
         /\ directionKey(S, direction).hoveredNode
              = NavigationTarget(direction, hoveredNode, hoveredOrigin)
         /\ directionKey(S, direction).nodeHitboxes = nodeHitboxes
  /\ last.nav # <<>> =>
       hoveredNode = NavigationTarget(last.nav[1], last.nav[2], last.nav[3])

\* A key has moved the hover from a node to the first of two hitboxes that
\* are equally near on the requested side.
C33_Witness ==
  /\ last.nav # <<>>
  /\ last.nav[2] # NoNode
  /\ LET nearest == Nearest(last.nav[1], CentreOf(last.nav[3][1], last.nav[3][2]))
     IN /\ Cardinality(nearest) = 2
        /\ \E i \in nearest : hoveredNode = nodeHitboxes[i] /\ hoveredNode # last.nav[2]


----------------------------------------------------------------------------
(* The hover and the edit session against the tree *)

\* C34: the hovered node, when there is one, refers to a task of the tree: no
\* operation, and in particular no removal of the hovered task at the end of
\* its edit, leaves the hover on a removed task.
C34_HoverInTree ==
  hoveredNode # NoNode => hoveredNode.task \in InTree(subtasks)


\* C35: every task of the tree other than the task in edit mode has a
\* non-empty label: a task created by add is given a label or removed when
\* its edit ends, and no new edit session abandons an unlabeled task.
C35_NoUnlabeledTask ==
  \A t \in InTree(subtasks) \ {editingTask} : label[t] # <<>>


\* C36: a task in edit mode is a task of the tree with a display position
\* (the input is shown over it); no operation leaves an edit session on a
\* task outside the tree, which would keep the keyboard shortcuts disabled.
C36_EditedTaskInTree ==
  editingTask # NoTask =>
    /\ editingTask \in InTree(subtasks)
    /\ editingTask \in DOMAIN displayPositions


----------------------------------------------------------------------------
(* The viewport at rest *)

AtTargets == panX = panTargetX /\ panY = panTargetY /\ zoom = zoomTarget

\* C37: whenever no frame of the smoothing loop is pending the viewport is at
\* its targets (panX = panTargetX, panY = panTargetY, zoom = zoomTarget):
\* every operation that moves a target away from the current value also
\* schedules the loop.
C37_RestAtTargets ==
  (viewportFrames = 0 /\ ~viewportAnimationHandle) => AtTargets

\* After a wheel zoom the loop has stopped with the viewport at its targets.
C37_Witness ==
  /\ viewportFrames = 0
  /\ ~viewportAnimationHandle
  /\ zoom # Px(1)
  /\ AtTargets


----------------------------------------------------------------------------
(* Padded ranges *)

\* C38: for every tree, the padded range passed to each child lies inside the
\* slice its parent cut for it (the padding is not negative), the ranges of
\* two siblings do not overlap, and every range lies within [0, 1].
C38_PaddedInsideSlice ==
  LET ranges == rangesOfTree(subtasks)
  IN /\ \A task \in InTree(subtasks) :
          /\ ranges[task].childStart <= ranges[task].start
          /\ ranges[task].end <= ranges[task].childEnd
          /\ 0 <= ranges[task].start
          /\ ranges[task].end <= Range(1)
     /\ \A task \in InTree(subtasks) :
          \A i, j \in 1 .. Len(subtasks[task]) :
            i < j => ranges[subtasks[task][i]].end <= ranges[subtasks[task][j]].start

====
